---- MODULE Spec2Model ----
(***************************************************************************)
(* A model of iodata's load/dump orchestration layer (iodata/iodata.py):   *)
(* the codec registry and filename dispatch of load_one and dump_one, the  *)
(* left-to-right merge of the codecs' field mappings, and the basis        *)
(* reordering and sign correction applied to the merged mapping before it  *)
(* is wrapped in an IOData container.                                      *)
(*                                                                         *)
(* Conventions.                                                            *)
(*  - A path or a glob pattern is a sequence of one-character strings.     *)
(*  - A numpy array is a record [t |-> "array", shape, a] whose data `a`   *)
(*    is a function from 0-based index tuples to integers.                 *)
(*  - A Python dict is a function whose DOMAIN is its set of keys.         *)
(*  - Every key of a mapping owns its array (the codecs of this repository *)
(*    allocate one array per key, fchk.py:177 and fchk.py:205), so the     *)
(*    in-place updates of load_one are modelled on values.                 *)
(***************************************************************************)
EXTENDS Integers, Sequences, FiniteSets, TLC

VARIABLES
    op,         \* the entry point called: "load_one" or "dump_one"
    filenames,  \* the argument list: a sequence of files [path, body]
    pc,         \* position inside the call
    idx,        \* load_one: 1-based position of the next filename of the loop
    result,     \* load_one: the local dict `result`
    merged,     \* load_one: `result` as it stood when the file loop ended
    used,       \* the format modules selected so far, in order
    opened,     \* the paths opened so far, in order, as <<path, mode>>
    raised,     \* the exception that left the call, "none" when none did
    out,        \* load_one: the attributes of the returned IOData
    disk,       \* dump_one: state of the target file
    handles,    \* load_one: the positions of the filenames whose file object,
                \* opened by LineIterator.__init__, has not been closed
    attrs,      \* IOData: the type-checked part of the instance's __dict__
    assigned,   \* IOData: the attributes assigned and not deleted since
    ret,        \* IOData: the last attribute access and what it gave
    text,       \* LineIterator: the lines of the file
    fpos,       \* LineIterator: the lines read from the file object self._f
    stack,      \* LineIterator: self.stack
    lineno,     \* LineIterator: self.lineno
    consumed,   \* LineIterator: the lines pulled and not pushed back since
    disciplined, \* LineIterator: every back() so far gave the last of `consumed`
    lit_ret,    \* LineIterator: the last call and what it gave
    rt_pc,      \* round trip: position in load, dump, load
    rt_codec,   \* round trip: <<codec of the first load, codec of dump and reload,
                \* whether the caller sets numbers>>
    rt_file,    \* round trip: the lines of the file loaded first
    mol0,       \* round trip: the IOData attributes after the first load
    rt_out,     \* round trip: the lines written by dump
    mol1,       \* round trip: the IOData attributes after the second load
    rt_exc,     \* round trip: the exception that ended it, "none" when none did
    fp_shells,  \* fchk.load: my_shell_types
    fp_perm,    \* fchk.load: permutation
    fp_pc,      \* fchk.load: position around the loop that builds permutation
    wfn_types,  \* get_permutation_orbital: type_assignment
    wfn_index,  \* get_permutation_orbital: index
    wfn_perm,   \* get_permutation_orbital: permutation
    wfn_pc,     \* get_permutation_orbital: position, and the exception raised
    wfn_iter,   \* get_permutation_orbital: passes of the outer loop so far
    two_mo,     \* set_four_index_element: four_index_object
    two_mo_set, \* set_four_index_element: the arguments of the last call
    two_mo_calls \* set_four_index_element: number of calls so far

load_vars ==
    <<op, filenames, pc, idx, result, merged, used, opened, raised, out, disk, handles>>
container_vars == <<attrs, assigned, ret>>
reader_vars == <<text, fpos, stack, lineno, consumed, disciplined, lit_ret>>

roundtrip_vars == <<rt_pc, rt_codec, rt_file, mol0, rt_out, mol1, rt_exc>>
shells_vars == <<fp_shells, fp_perm, fp_pc>>
wfn_vars == <<wfn_types, wfn_index, wfn_perm, wfn_pc, wfn_iter>>
tensor_vars == <<two_mo, two_mo_set, two_mo_calls>>
\* the state of the functions that are called on their own
unit_vars == <<roundtrip_vars, shells_vars, wfn_vars, tensor_vars>>

vars == <<load_vars, container_vars, reader_vars, unit_vars>>

-----------------------------------------------------------------------------
(* Bounds of the model.                                                    *)

\* most filenames in one load_one call
MaxFiles == 2
\* most basis functions of a merged mapping handed to the reordering engine
MaxNb == 3
\* most orbitals (columns) of an orbital-coefficient array
MaxNorb == 2
\* most atoms (rows) of an array assigned to an IOData attribute
MaxAtoms == 4
\* most atoms of a file that is loaded, dumped and loaded again
MaxRtAtoms == 2
\* most shells of a basis set whose permutation is made on its own
MaxShells == 2
\* most primitives of one shell type that a WFN file lists together
MaxGroup == 2
\* most basis functions of a four-index object
MaxBasis == 3
\* most calls of set_four_index_element on one four-index object
MaxCalls == 2
\* most lines of a file read through a LineIterator
MaxLines == 3
\* most lines on the stack of a LineIterator
MaxStack == 2

-----------------------------------------------------------------------------
(* Paths and glob patterns.                                                *)

\* the whole path in place of its last component
basename_full_path(p) == p

\* os.path.basename (posixpath): i = p.rfind('/') + 1; return p[i:]
basename(p) ==
    LET slashes == {i \in 1..Len(p) : p[i] = "/"}
        i == IF slashes = {} THEN 0 ELSE CHOOSE k \in slashes : \A j \in slashes : j <= k
    IN  SubSeq(p, i + 1, Len(p))

\* fnmatch.fnmatch on POSIX (normcase is the identity there): the pattern is
\* translated to a regular expression matched against the whole name, "*"
\* standing for any run of characters ("/" included), "?" for any one
\* character, every other character for itself.  Character classes are not
\* modelled: no pattern of the registry and no path of the model holds "[".
RECURSIVE fnmatch(_, _)
fnmatch(name, pat) ==
    IF pat = <<>> THEN name = <<>>
    ELSE IF Head(pat) = "*"
         THEN \/ fnmatch(name, Tail(pat))
              \/ (name # <<>> /\ fnmatch(Tail(name), pat))
    ELSE IF name = <<>> THEN FALSE
    ELSE IF Head(pat) = "?" THEN fnmatch(Tail(name), Tail(pat))
    ELSE Head(name) = Head(pat) /\ fnmatch(Tail(name), Tail(pat))

-----------------------------------------------------------------------------
(* The format registry.                                                    *)

\* a path or pattern written as a sequence of characters
dot_cube   == <<"*", ".", "c", "u", "b", "e">>
dot_fchk   == <<"*", ".", "f", "c", "h", "k">>
locpot_any == <<"L", "O", "C", "P", "O", "T", "*">>
dot_molden == <<"*", ".", "m", "o", "l", "d", "e", "n">>
dot_molden_input ==
    <<"*", ".", "m", "o", "l", "d", "e", "n", ".", "i", "n", "p", "u", "t">>
dot_wfn    == <<"*", ".", "w", "f", "n">>
dot_xyz    == <<"*", ".", "x", "y", "z">>

\* One record per module of iodata.formats that has a `patterns` attribute;
\* `dump` tells whether the module defines a dump function.  car.py and
\* mdf.py define PATTERNS, load_one and dump_one instead: hasattr(module,
\* 'patterns') is false for them and they are not registered.
mod_cube   == [name |-> "cube",   patterns |-> <<dot_cube>>,   dump |-> TRUE]
mod_fchk   == [name |-> "fchk",   patterns |-> <<dot_fchk>>,   dump |-> FALSE]
mod_locpot == [name |-> "locpot", patterns |-> <<locpot_any>>, dump |-> FALSE]
mod_wfn    == [name |-> "wfn",    patterns |-> <<dot_wfn>>,    dump |-> FALSE]
mod_xyz    == [name |-> "xyz",    patterns |-> <<dot_xyz>>,    dump |-> TRUE]
\* The Molden codec, as test_molden.py uses it: load_one of *.molden.input
\* and *.molden paths, dump_one to a *.molden path.
mod_molden ==
    [name |-> "molden", patterns |-> <<dot_molden_input, dot_molden>>, dump |-> TRUE]

\* iter_modules lists a package's modules in sorted order, so the registry
\* is in alphabetical order of the module names.
format_modules ==
    <<mod_cube, mod_fchk, mod_locpot, mod_molden, mod_wfn, mod_xyz>>

\* any(fnmatch(basename, pattern) for pattern in format_module.patterns)
claims_name(module, base) ==
    \E k \in 1..Len(module.patterns) : fnmatch(base, module.patterns[k])

\* The for/break/else over format_modules shared by load_one and dump_one:
\* the index of the module the loop breaks at, 0 when the else branch runs.
select_module(filename) ==
    LET base == basename(filename)
        hits == {m \in 1..Len(format_modules) : claims_name(format_modules[m], base)}
    IN  IF hits = {} THEN 0 ELSE CHOOSE m \in hits : \A h \in hits : m <= h

-----------------------------------------------------------------------------
(* Values and numpy arrays.                                                *)

None == [t |-> "None"]

\* {}: the dict without keys
empty_dict == [k \in {} |-> None]

\* The index tuples of an array of the given shape (ranks 1, 2 and 4).
Idx(shape) ==
    CASE Len(shape) = 1 -> {<<i>> : i \in 0..(shape[1] - 1)}
      [] Len(shape) = 2 -> (0..(shape[1] - 1)) \X (0..(shape[2] - 1))
      [] Len(shape) = 4 -> (0..(shape[1] - 1)) \X (0..(shape[2] - 1))
                           \X (0..(shape[3] - 1)) \X (0..(shape[4] - 1))

Array(shape, f) == [t |-> "array", shape |-> shape, a |-> [ix \in Idx(shape) |-> f[ix]]]

\* A numpy operation that raised, in place of the array it would have given.
Err(exc) == [t |-> "error", exc |-> exc]
IsErr(x) == x.t = "error"

\* A[..., P, ...]: integer-array indexing of axis k of A by the rank-1 array
\* P.  The result is a new array; an index past the axis is an IndexError.
take(A, P, k) ==
    IF IsErr(A) THEN A
    ELSE IF \E i \in Idx(P.shape) : P.a[i] >= A.shape[k] THEN Err("IndexError")
    ELSE LET shape == [A.shape EXCEPT ![k] = P.shape[1]]
         IN  [t |-> "array", shape |-> shape,
              a |-> [ix \in Idx(shape) |-> A.a[[ix EXCEPT ![k] = P.a[<<ix[k]>>]]]]]

\* target[:] = X: X is broadcast to the shape of target (every axis of X has
\* the length of target's axis or length 1), a ValueError otherwise.
assign_all(target, X) ==
    IF IsErr(X) THEN X
    ELSE IF \E k \in 1..Len(target.shape) : X.shape[k] \notin {1, target.shape[k]}
         THEN Err("ValueError")
    ELSE [t |-> "array", shape |-> target.shape,
          a |-> [ix \in Idx(target.shape) |->
                    X.a[[k \in 1..Len(ix) |-> IF X.shape[k] = 1 THEN 0 ELSE ix[k]]]]]

\* A *= S reshaped so that S runs along axis k of A and has length 1 on the
\* axes after k: S is broadcast along the other axes, a ValueError when its
\* length is neither 1 nor the length of axis k.
imul(A, S, k) ==
    IF IsErr(A) THEN A
    ELSE IF S.shape[1] \notin {1, A.shape[k]} THEN Err("ValueError")
    ELSE [t |-> "array", shape |-> A.shape,
          a |-> [ix \in Idx(A.shape) |->
                    A.a[ix] * S.a[<<IF S.shape[1] = 1 THEN 0 ELSE ix[k]>>]]]

\* dict.get(key): None when the key is absent
get(d, key) == IF key \in DOMAIN d THEN d[key] ELSE None

\* del d[key]
del(d, key) == [k \in DOMAIN d \ {key} |-> d[k]]

\* d.update(e) with the keys d already has left as they are
update_keep_first(d, e) ==
    [k \in DOMAIN d \cup DOMAIN e |-> IF k \in DOMAIN d THEN d[k] ELSE e[k]]

\* d.update(e)
update(d, e) == [k \in DOMAIN d \cup DOMAIN e |-> IF k \in DOMAIN e THEN e[k] ELSE d[k]]

-----------------------------------------------------------------------------
(* The basis reordering and sign correction of load_one.                   *)

two_index_names ==
    <<"dm_full", "dm_full_mp2", "dm_full_mp3", "dm_full_cc",
      "dm_full_ci", "dm_full_scf", "dm_spin", "dm_spin_mp2",
      "dm_spin_mp3", "dm_spin_cc", "dm_spin_ci", "dm_spin_scf", "kin",
      "na", "olp">>

\* value[:] = value[permutation], the column reordering left out
perm_two_index_rows_only(value, permutation) ==
    assign_all(value, take(value, permutation, 1))

\* value[:] = value[permutation][:, permutation]
perm_two_index(value, permutation) ==
    assign_all(value, take(take(value, permutation, 1), permutation, 2))

\* er[:] = er[permutation][:, permutation][:, :, permutation][:, :, :, permutation]
perm_four_index(er, permutation) ==
    assign_all(er, take(take(take(take(er, permutation, 1), permutation, 2),
                             permutation, 3), permutation, 4))

\* the row reordering of the coefficients carried out twice
perm_coeffs_twice(coeffs, permutation) ==
    assign_all(coeffs, take(take(coeffs, permutation, 1), permutation, 1))

\* orb_alpha_coeffs[:] = orb_alpha_coeffs[permutation]
perm_coeffs(coeffs, permutation) ==
    assign_all(coeffs, take(coeffs, permutation, 1))

\* value *= signs only, the row scaling left out
sign_two_index_columns_only(value, signs) ==
    imul(value, signs, 2)

\* value *= signs; value *= signs.reshape(-1, 1)
sign_two_index(value, signs) ==
    imul(imul(value, signs, 2), signs, 1)

\* er *= signs on three of the four axes, the last reshape left out
sign_four_index_three_axes(er, signs) ==
    imul(imul(imul(er, signs, 4), signs, 3), signs, 2)

\* er *= signs; then signs.reshape(-1, 1), (-1, 1, 1) and (-1, 1, 1, 1)
sign_four_index(er, signs) ==
    imul(imul(imul(imul(er, signs, 4), signs, 3), signs, 2), signs, 1)

\* orb_alpha_coeffs *= signs, without the reshape: the columns are scaled
sign_coeffs_columns(coeffs, signs) ==
    imul(coeffs, signs, 2)

\* orb_alpha_coeffs *= signs.reshape(-1, 1)
sign_coeffs(coeffs, signs) ==
    imul(coeffs, signs, 1)

\* The keys one pass visits, in the order it visits them.
pass_order == two_index_names \o <<"er", "orb_alpha_coeffs", "orb_beta_coeffs">>

\* What one pass does to the value under `name`: the registry update, the
\* four-index update or the coefficient update; every other key is left.
perm_value(d, name, permutation) ==
    IF get(d, name) = None THEN get(d, name)
    ELSE IF \E k \in 1..Len(two_index_names) : two_index_names[k] = name
         THEN perm_two_index(d[name], permutation)
    ELSE IF name = "er" THEN perm_four_index(d[name], permutation)
    ELSE perm_coeffs(d[name], permutation)

sign_value(d, name, signs) ==
    IF get(d, name) = None THEN get(d, name)
    ELSE IF \E k \in 1..Len(two_index_names) : two_index_names[k] = name
         THEN sign_two_index(d[name], signs)
    ELSE IF name = "er" THEN sign_four_index(d[name], signs)
    ELSE sign_coeffs(d[name], signs)

\* The first exception of a pass, "none" when every update went through.
first_error(new) ==
    LET bad == {k \in 1..Len(pass_order) : IsErr(new[k])}
    IN  IF bad = {} THEN "none"
        ELSE new[CHOOSE k \in bad : \A j \in bad : k <= j].exc

\* The mapping after a pass that updated the visited keys to `new` and then
\* deleted the control key.
after_pass(d, new, control) ==
    [key \in DOMAIN d \ {control} |->
        IF \E k \in 1..Len(pass_order) : pass_order[k] = key
        THEN new[CHOOSE k \in 1..Len(pass_order) : pass_order[k] = key]
        ELSE d[key]]

-----------------------------------------------------------------------------
(* The codecs: what load returns for a file body.                          *)
(*                                                                         *)
(* A body is the parsed content of a file:                                 *)
(*   defect  what is wrong with the text, "none" when it is well-formed:   *)
(*             "empty"       the file ends before its header is complete   *)
(*             "cut_array"   the file ends inside an array of numbers      *)
(*             "cut_density" FCHK: the file ends inside its first density  *)
(*             "bad_header"  a header line is not what the codec expects   *)
(*             "bad_number"  a token that should be a number is not one    *)
(*             "short_line"  a line has too few tokens                     *)
(*   lineno  the line counter of the reader when the codec meets the       *)
(*           defect                                                        *)
(*   seed    a number telling the data of one file from another's          *)
(*   natom   the number of atoms                                           *)
(*   shells  FCHK: the shell types, SP shells already split                *)
(*   dens    FCHK: the density fields present, by the key they load into   *)
(*   beta    FCHK: whether 'Beta Orbital Energies' is present              *)
(*   nalpha, nbeta  FCHK: the electron counts                              *)
(*   norb    the number of orbitals (independent functions)                *)
(*   perm, signs  Molden: the corrections the codec emits                  *)

\* a value load_one passes through without looking into it
Opaque(seed, key) == [t |-> "opaque", seed |-> seed, key |-> key]

\* numbers, coordinates, pseudo_numbers: an array with natom rows
Geom(seed, key, natom) == [t |-> "geom", seed |-> seed, key |-> key, natom |-> natom]

\* a mapping with every key of `keys` bound to an opaque value
opaque_fields(seed, keys) == [k \in keys |-> Opaque(seed, k)]

\* the three geometry arrays a codec reads from one file
geom_fields(seed, keys, natom) == [k \in keys |-> Geom(seed, k, natom)]

arange(n) == [i \in 1..n |-> i - 1]

reversed(s) == [i \in 1..Len(s) |-> s[Len(s) + 1 - i]]

\* permutation_rules with a d rule that names the last place twice
permutation_rules_d_repeats(shell_type) ==
    CASE shell_type <= -2 -> arange(2 * (-shell_type) + 1)
      [] shell_type = 0 -> <<0>>
      [] shell_type = 1 -> arange(3)
      [] shell_type = 2 -> <<0, 3, 4, 1, 5, 5>>
      [] shell_type = 3 -> <<0, 4, 5, 3, 9, 6, 1, 8, 7, 2>>
      [] shell_type >= 4 -> reversed(arange(((shell_type + 1) * (shell_type + 2)) \div 2))

\* permutation_rules of fchk.load, 0-based as in the source
permutation_rules(shell_type) ==
    CASE shell_type <= -2 -> arange(2 * (-shell_type) + 1)
      [] shell_type = 0 -> <<0>>
      [] shell_type = 1 -> arange(3)
      [] shell_type = 2 -> <<0, 3, 4, 1, 5, 2>>
      [] shell_type = 3 -> <<0, 4, 5, 3, 9, 6, 1, 8, 7, 2>>
      [] shell_type >= 4 -> reversed(arange(((shell_type + 1) * (shell_type + 2)) \div 2))

\* for shell_type in my_shell_types:
\*     permutation.extend(permutation_rules[shell_type] + len(permutation))
RECURSIVE fchk_permutation(_, _)
fchk_permutation(shell_types, permutation) ==
    IF shell_types = <<>> THEN permutation
    ELSE LET rule == permutation_rules(Head(shell_types))
         IN  fchk_permutation(Tail(shell_types),
                 permutation \o [i \in 1..Len(rule) |-> rule[i] + Len(permutation)])

\* a 0-based sequence as a rank-1 array
Vector(s) == [t |-> "array", shape |-> <<Len(s)>>, a |-> [ix \in Idx(<<Len(s)>>) |-> s[ix[1] + 1]]]

\* the position of a key in a sequence of keys, 0 when it is not in it
position(keys, key) ==
    IF \E k \in 1..Len(keys) : keys[k] = key
    THEN CHOOSE k \in 1..Len(keys) : keys[k] = key
    ELSE 0

\* the content of triangle storage: one number per unordered index pair
triangle(i, j) ==
    LET hi == IF i >= j THEN i ELSE j
        lo == IF i >= j THEN j ELSE i
    IN  (hi * (hi + 1)) \div 2 + lo + 1

\* load_dm: the dense symmetric matrix of a density stored as a triangle
load_dm(body, key, nbasis) ==
    Array(<<nbasis, nbasis>>,
          [ix \in Idx(<<nbasis, nbasis>>) |->
              1000 * body.seed + 50 * position(two_index_names, key)
              + triangle(ix[1], ix[2])])

\* fchk['Alpha MO coefficients'].reshape(nbasis_indep, nbasis).T, which is
\* entry [a, m] = raw[m * nbasis + a]; spin 0 is alpha, 1 is beta
mo_coeffs(body, spin, nbasis) ==
    Array(<<nbasis, body.norb>>,
          [ix \in Idx(<<nbasis, body.norb>>) |->
              1000 * body.seed + 900 + 40 * spin + ix[2] * nbasis + ix[1] + 1])

\* what load gives: a mapping, an exception, or the exception of lit.error
returns(fields) == [exc |-> "none", msg |-> "", fields |-> fields]
raises(exc) == [exc |-> exc, msg |-> "", fields |-> empty_dict]
lit_error_raised(msg) == [exc |-> "lit.error", msg |-> msg, fields |-> empty_dict]

\* fchk.load.  _load_fchk_low reads the two header lines outside any try
\* block and every field inside `try ... except StopIteration: break`: a
\* file that ends inside a field loses that field and the ones after it,
\* and the loop ends as it does on a complete file.  The fields of a file
\* are in Gaussian's order: scalars, basis, orbitals, densities.
fchk_load(body) ==
    LET permutation == fchk_permutation(body.shells, <<>>)
        nbasis == Len(permutation)
        base == update(
            update(opaque_fields(body.seed, {"title", "obasis"}),
                   geom_fields(body.seed, {"coordinates", "numbers", "pseudo_numbers"},
                               body.natom)),
            [k \in {"permutation"} |-> Vector(permutation)])
        dens == IF body.defect = "cut_density" THEN {} ELSE body.dens
        dms == [k \in dens |-> load_dm(body, k, nbasis)]
        alpha == update(
            opaque_fields(body.seed, {"orb_alpha", "orb_alpha_energies", "orb_alpha_occs"}),
            [k \in {"orb_alpha_coeffs"} |-> mo_coeffs(body, 0, nbasis)])
        uhf == update(
            opaque_fields(body.seed, {"orb_beta", "orb_beta_energies", "orb_beta_occs"}),
            [k \in {"orb_beta_coeffs"} |-> mo_coeffs(body, 1, nbasis)])
        rohf == update(
            opaque_fields(body.seed, {"orb_beta", "orb_beta_energies", "orb_beta_occs"}),
            [k \in {"orb_beta_coeffs"} |-> mo_coeffs(body, 0, nbasis)])
        props == opaque_fields(body.seed, {"energy"})
    IN  \* next(lit) of the header lines, fchk.py:259-260
        IF body.defect = "empty" THEN raises("StopIteration")
        ELSE IF body.defect = "bad_header"
             THEN lit_error_raised(
                     "The second line of the FCHK file should contain two or three words.")
        ELSE IF body.defect = "bad_number" THEN lit_error_raised("Could not interpret")
        \* the file ended inside 'Alpha MO coefficients': the label is not in
        \* the dict fchk.py:206 indexes
        ELSE IF body.defect = "cut_array" THEN raises("KeyError")
        ELSE IF body.nalpha < 0 \/ body.nbeta < 0 \/ body.nalpha + body.nbeta <= 0
             \* the message is built from `filename`, a name fchk.py never binds
             THEN raises("NameError")
        ELSE IF body.beta
             THEN returns(update(update(update(update(base, dms), alpha), uhf), props))
        ELSE IF body.nbeta # body.nalpha
             THEN IF "dm_full_scf" \in dens
                  THEN returns(update(del(update(update(update(base, dms), alpha), rohf),
                                          "dm_full_scf"), props))
                  \* result.pop('dm_full_scf') of a key that is not there
                  ELSE raises("KeyError")
        ELSE returns(update(update(update(base, dms), alpha), props))

\* the mapping of a codec without basis-indexed fields
plain_load(body, opaque_keys, geom_keys) ==
    returns(update(opaque_fields(body.seed, opaque_keys),
                   geom_fields(body.seed, geom_keys, body.natom)))

\* xyz.load: every line comes from next(lit); int() and float() get the
\* tokens as they are and words[1..3] are indexed without a length check.
xyz_load(body) ==
    CASE body.defect \in {"empty", "cut_array"} -> raises("StopIteration")
      [] body.defect \in {"bad_header", "bad_number"} -> raises("ValueError")
      [] body.defect = "short_line" -> raises("IndexError")
      [] OTHER -> plain_load(body, {"title"}, {"coordinates", "numbers"})

\* cube.load: as xyz.load, in read_grid_line, read_coordinate_line and
\* _read_cube_data; the second line is skipped whatever it holds.
cube_load(body) ==
    CASE body.defect \in {"empty", "cut_array"} -> raises("StopIteration")
      [] body.defect = "bad_number" -> raises("ValueError")
      [] body.defect = "short_line" -> raises("IndexError")
      [] OTHER -> plain_load(body, {"title", "cell", "cube_data", "grid"},
                             {"coordinates", "numbers", "pseudo_numbers"})

\* locpot.load; the files of the model are well-formed
locpot_load(body) ==
    plain_load(body, {"title", "rvecs", "grid", "cube_data"}, {"coordinates", "numbers"})

\* wfn.load: _load_helper_num checks the second line with lit.error
wfn_load(body) ==
    CASE body.defect \in {"empty", "cut_array"} -> raises("StopIteration")
      [] body.defect = "bad_header" ->
            lit_error_raised("Expecting line to start with GAUSSIAN.")
      [] OTHER -> plain_load(body, {"title", "obasis", "mo", "energy"},
                             {"coordinates", "numbers"})

\* The Molden codec emits its corrections as ordinary keys of the mapping and
\* leaves applying them to load_one.
molden_load(body) ==
    returns(update(
        update(opaque_fields(body.seed, {"title", "obasis", "orb_alpha",
                                         "orb_alpha_energies", "orb_alpha_occs"}),
               geom_fields(body.seed, {"coordinates", "numbers", "pseudo_numbers"},
                           body.natom)),
        [k \in {"orb_alpha_coeffs", "permutation", "signs"} |->
            CASE k = "orb_alpha_coeffs" -> mo_coeffs(body, 0, Len(body.perm))
              [] k = "permutation" -> Vector(body.perm)
              [] k = "signs" -> Vector(body.signs)]))

\* format_module.load(lit)
module_load(name, body) ==
    CASE name = "cube" -> cube_load(body)
      [] name = "fchk" -> fchk_load(body)
      [] name = "locpot" -> locpot_load(body)
      [] name = "molden" -> molden_load(body)
      [] name = "wfn" -> wfn_load(body)
      [] name = "xyz" -> xyz_load(body)

\* fchk.load with orb_alpha_coeffs left as the view of the array of the
\* file, without np.copy
fchk_storage_alpha_view(body, key) ==
    IF key \in {"orb_alpha_coeffs", "orb_beta_coeffs"} /\ ~body.beta
    THEN "Alpha MO coefficients"
    ELSE key

\* The array a value of the mapping of fchk.load is stored in.  load_dm
\* fills a new np.zeros for each density and the alpha coefficients are an
\* np.copy, as the beta coefficients of a UHF file are: each is an array of
\* its own, named here by its key.  The beta coefficients of an ROHF file
\* are a reshaped and transposed view of fchk['Alpha MO coefficients'].
fchk_storage(body, key) ==
    IF key = "orb_beta_coeffs" /\ ~body.beta THEN "Alpha MO coefficients"
    ELSE key

\* the array a value of the mapping of format_module.load(lit) is stored in
module_storage(name, body, key) ==
    IF name = "fchk" THEN fchk_storage(body, key) ELSE key

-----------------------------------------------------------------------------
(* The files of the model.                                                 *)

body0(seed, natom) ==
    [defect |-> "none", lineno |-> 0, seed |-> seed, natom |-> natom, shells |-> <<>>,
     dens |-> {},
     beta |-> FALSE, nalpha |-> 1, nbeta |-> 1, norb |-> 1, perm |-> <<>>, signs |-> <<>>]

\* a.fchk: UHF, one Cartesian d shell, SCF and MP2 densities
file_a_fchk ==
    [path |-> <<"a", ".", "f", "c", "h", "k">>,
     body |-> [body0(1, 2) EXCEPT !.shells = <<2>>, !.beta = TRUE, !.nalpha = 2,
                                  !.norb = MaxNorb,
                                  !.dens = {"dm_full_scf", "dm_spin_scf", "dm_full_mp2"}]]

\* d/b.fchk: RHF, two p shells, SCF and CC densities
file_b_fchk ==
    [path |-> <<"d", "/", "b", ".", "f", "c", "h", "k">>,
     body |-> [body0(2, 2) EXCEPT !.shells = <<1, 1>>, !.norb = MaxNorb,
                                  !.dens = {"dm_full_scf", "dm_full_cc"}]]

\* r.fchk: ROHF (no beta energies, two alpha and one beta electron)
file_r_fchk ==
    [path |-> <<"r", ".", "f", "c", "h", "k">>,
     body |-> [body0(3, 2) EXCEPT !.shells = <<2>>, !.nalpha = 2, !.norb = MaxNorb,
                                  !.dens = {"dm_full_scf", "dm_spin_scf"}]]

\* t.fchk: an empty file, the title line is already missing
file_t_fchk ==
    [path |-> <<"t", ".", "f", "c", "h", "k">>,
     body |-> [body0(4, 0) EXCEPT !.defect = "empty"]]

\* a.fchk cut at several places and with a token that is no number
fchk_defective(defect, at) ==
    [path |-> <<"u", ".", "f", "c", "h", "k">>,
     body |-> [body0(17, 2) EXCEPT !.shells = <<2>>, !.beta = TRUE, !.nalpha = 2,
                                   !.norb = MaxNorb, !.defect = defect, !.lineno = at,
                                   !.dens = {"dm_full_scf", "dm_spin_scf"}]]
file_u_fchk_cut_array   == fchk_defective("cut_array", 9)
file_u_fchk_cut_density == fchk_defective("cut_density", 12)
file_u_fchk_bad_number  == fchk_defective("bad_number", 5)
file_u_fchk_bad_header  == fchk_defective("bad_header", 2)

\* q.fchk: ROHF, the file has no 'Total SCF Density'
file_q_fchk ==
    [path |-> <<"q", ".", "f", "c", "h", "k">>,
     body |-> [body0(18, 2) EXCEPT !.shells = <<2>>, !.nalpha = 2, !.norb = MaxNorb,
                                   !.dens = {"dm_spin_scf"}]]

\* z.fchk: a closed-shell file that states 0 alpha and 0 beta electrons
file_z_fchk ==
    [path |-> <<"z", ".", "f", "c", "h", "k">>,
     body |-> [body0(25, 2) EXCEPT !.shells = <<2>>, !.nalpha = 0, !.nbeta = 0,
                                   !.norb = MaxNorb, !.dens = {"dm_full_scf"}]]

\* a.xyz: two atoms
file_a_xyz == [path |-> <<"a", ".", "x", "y", "z">>, body |-> body0(5, 2)]

\* LOCPOT/c.xyz: three atoms, in a directory named like a VASP file
file_c_xyz ==
    [path |-> <<"L", "O", "C", "P", "O", "T", "/", "c", ".", "x", "y", "z">>,
     body |-> body0(6, 3)]

\* m.xyz: the first line is not a number, int() raises ValueError
file_m_xyz ==
    [path |-> <<"m", ".", "x", "y", "z">>,
     body |-> [body0(7, 0) EXCEPT !.defect = "bad_header", !.lineno = 1]]

\* n.xyz with four lines where the first line announces three atoms, with
\* a coordinate that is no number, and with an atom line of three tokens
xyz_defective(defect, at) ==
    [path |-> <<"n", ".", "x", "y", "z">>,
     body |-> [body0(19, 3) EXCEPT !.defect = defect, !.lineno = at]]
file_n_xyz_cut        == xyz_defective("cut_array", 4)
file_n_xyz_bad_number == xyz_defective("bad_number", 3)
file_n_xyz_short_line == xyz_defective("short_line", 4)

\* b.cube that ends inside the grid data
file_b_cube_cut ==
    [path |-> <<"b", ".", "c", "u", "b", "e">>,
     body |-> [body0(23, 2) EXCEPT !.defect = "cut_array", !.lineno = 10]]

\* b.wfn whose second line does not start with GAUSSIAN
file_b_wfn_bad_header ==
    [path |-> <<"b", ".", "w", "f", "n">>,
     body |-> [body0(24, 2) EXCEPT !.defect = "bad_header", !.lineno = 2]]

\* LOCPOT.xyz: a VASP file whose name also ends in .xyz
file_locpot_xyz ==
    [path |-> <<"L", "O", "C", "P", "O", "T", ".", "x", "y", "z">>, body |-> body0(8, 2)]

\* d/LOCPOT
file_locpot == [path |-> <<"d", "/", "L", "O", "C", "P", "O", "T">>, body |-> body0(9, 2)]

\* a.cube
file_a_cube == [path |-> <<"a", ".", "c", "u", "b", "e">>, body |-> body0(10, 2)]

\* a.wfn
file_a_wfn == [path |-> <<"a", ".", "w", "f", "n">>, body |-> body0(11, 2)]

\* x.molden: six basis functions, a permutation and mixed signs
file_x_molden ==
    [path |-> <<"x", ".", "m", "o", "l", "d", "e", "n">>,
     body |-> [body0(12, 2) EXCEPT !.norb = MaxNorb, !.perm = <<1, 0, 2, 3, 5, 4>>,
                                   !.signs = <<1, -1, 1, 1, -1, -1>>]]

\* y.molden.input: six basis functions, another permutation and other signs
file_y_molden ==
    [path |-> <<"y", ".", "m", "o", "l", "d", "e", "n", ".", "i", "n", "p", "u", "t">>,
     body |-> [body0(13, 2) EXCEPT !.norb = MaxNorb, !.perm = <<0, 2, 1, 3, 4, 5>>,
                                   !.signs = <<-1, 1, 1, -1, 1, 1>>]]

\* names no module of the registry claims
file_xyzzy == [path |-> <<"a", ".", "x", "y", "z", "z", "y">>, body |-> body0(14, 2)]
file_upper == [path |-> <<"a", ".", "X", "Y", "Z">>, body |-> body0(15, 2)]
file_a_car == [path |-> <<"a", ".", "c", "a", "r">>, body |-> body0(16, 2)]

Files ==
    {file_a_fchk, file_b_fchk, file_r_fchk, file_t_fchk, file_a_xyz, file_c_xyz,
     file_m_xyz, file_locpot_xyz, file_locpot, file_a_cube, file_a_wfn,
     file_x_molden, file_y_molden, file_xyzzy, file_upper, file_a_car,
     file_u_fchk_cut_array, file_u_fchk_cut_density, file_u_fchk_bad_number,
     file_u_fchk_bad_header, file_q_fchk, file_n_xyz_cut, file_n_xyz_bad_number,
     file_n_xyz_short_line, file_b_cube_cut, file_b_wfn_bad_header, file_z_fchk}

\* the argument lists of load_one
ArgLists == UNION {[1..n -> Files] : n \in 0..MaxFiles}

\* the containers handed to dump_one
Containers ==
    {empty_dict,
     update(opaque_fields(20, {"title"}), geom_fields(20, {"coordinates", "numbers"}, 2)),
     update(opaque_fields(21, {"title", "grid", "cube_data"}),
            geom_fields(21, {"coordinates", "numbers", "pseudo_numbers"}, 2)),
     update(update(opaque_fields(22, {"title", "cube_data"}),
                   [k \in {"grid"} |-> Opaque(22, "UniformGrid")]),
            geom_fields(22, {"coordinates", "numbers", "pseudo_numbers"}, 2))}

-----------------------------------------------------------------------------
(* load_one.                                                               *)

\* An exception that left a call: its class, its message and, for the
\* exceptions of LineIterator.error, the file name and line number the
\* message starts with.
NoError == [type |-> "none", msg |-> "", where |-> <<>>]

Error(type, msg) == [type |-> type, msg |-> msg, where |-> <<>>]

\* LineIterator.error:
\* raise IOError("{}:{} {}".format(self.filename, self.lineno, msg))
error(filename, at, msg) ==
    [type |-> "IOError", msg |-> msg, where |-> <<filename, at>>]

\* The shape checks of IOData(**result) on the attributes numbers,
\* coordinates and pseudo_numbers (ArrayTypeCheckDescriptor.__set__ with
\* `matching`): whichever of the three is set last meets the ones set before
\* it, so the construction goes through exactly when the first dimensions
\* of the present ones agree.
shapes_match(d) ==
    \A k1, k2 \in {"numbers", "coordinates", "pseudo_numbers"} \cap DOMAIN d :
        (d[k1].t = "geom" /\ d[k2].t = "geom") => d[k1].natom = d[k2].natom

\* What load_one raises when the load of the file's module raises (the
\* try/except of iodata.py:310-313 around format_module.load).
load_raised(file) ==
    LET loaded == module_load(format_modules[select_module(file.path)].name, file.body)
    IN  CASE loaded.exc = "StopIteration" ->
                error(file.path, file.body.lineno, "File ended before all data was read.")
          [] loaded.exc = "lit.error" -> error(file.path, file.body.lineno, loaded.msg)
          [] OTHER -> Error(loaded.exc, "")

\* One round of the loop over filenames: no module claims the base name.
LoadUnknown ==
    /\ op = "load_one" /\ pc = "loop"
    /\ select_module(filenames[idx].path) = 0
    /\ raised' = Error("ValueError", "Unknown file format for reading")
    /\ pc' = "raised"
    /\ UNCHANGED <<op, filenames, idx, result, merged, used, opened, out, disk, handles>>
    /\ UNCHANGED <<container_vars, reader_vars, unit_vars>>

\* One round of the loop: the selected module's load returns a mapping.
\* lit = LineIterator(filename) opens the file; nothing in load_one or in
\* the codecs closes it (there is no with block and no close call), the file
\* object is closed by LineIterator.__del__.
LoadFile ==
    /\ op = "load_one" /\ pc = "loop"
    /\ select_module(filenames[idx].path) # 0
    /\ LET module == format_modules[select_module(filenames[idx].path)]
           loaded == module_load(module.name, filenames[idx].body)
       IN  /\ loaded.exc = "none"
           /\ used' = Append(used, module.name)
           /\ opened' = Append(opened, <<filenames[idx].path, "r">>)
           /\ result' = update(result, loaded.fields)
           /\ idx' = idx + 1
           /\ pc' = IF idx = Len(filenames) THEN "permutation" ELSE "loop"
           /\ merged' = IF idx = Len(filenames) THEN result' ELSE merged
           /\ handles' = handles \cup {idx}
    /\ UNCHANGED <<op, filenames, raised, out, disk>>
    /\ UNCHANGED <<container_vars, reader_vars, unit_vars>>

\* One round of the loop: the selected module's load raises.  StopIteration
\* is raised again as lit.error("File ended before all data was read."),
\* every other exception, those of lit.error in the codec among them,
\* leaves load_one as it is.
LoadRaises ==
    /\ op = "load_one" /\ pc = "loop"
    /\ select_module(filenames[idx].path) # 0
    /\ LET module == format_modules[select_module(filenames[idx].path)]
           loaded == module_load(module.name, filenames[idx].body)
       IN  /\ loaded.exc # "none"
           /\ used' = Append(used, module.name)
           /\ opened' = Append(opened, <<filenames[idx].path, "r">>)
           /\ raised' = load_raised(filenames[idx])
           /\ pc' = "raised"
           /\ handles' = handles \cup {idx}
    /\ UNCHANGED <<op, filenames, idx, result, merged, out, disk>>
    /\ UNCHANGED <<container_vars, reader_vars, unit_vars>>

\* the mapping the selected codec returns for the i-th filename of the call
Supplied(i) ==
    module_load(format_modules[select_module(filenames[i].path)].name,
                filenames[i].body).fields

\* the last position of the argument list whose file supplies the key,
\* 0 when no file does
LastWith(key) ==
    LET S == {i \in 1..Len(filenames) : key \in DOMAIN Supplied(i)}
    IN  IF S = {} THEN 0 ELSE CHOOSE i \in S : \A j \in S : j <= i

\* the array the value under a key of result is stored in: each call of
\* format_module.load makes its own arrays, and a value that no file of the
\* call supplied is an array of its own
storage(key) ==
    LET of(i) ==
            IF i = 0 THEN <<0, key>>
            ELSE <<i, module_storage(format_modules[select_module(filenames[i].path)].name,
                                     filenames[i].body, key)>>
    IN  of(LastWith(key))

\* The in-place updates of the permutation pass from pass_order[k] on: an
\* array is read as it is when its turn comes, and what is written to it
\* shows under every key whose value is stored in it.  An update that
\* raises ends the pass.
RECURSIVE permutation_pass(_, _, _, _)
permutation_pass(d, stored_in, k, permutation) ==
    IF k > Len(pass_order) THEN d
    ELSE LET written(name, v) ==
                 IF v = None THEN permutation_pass(d, stored_in, k + 1, permutation)
                 ELSE IF IsErr(v) THEN [d EXCEPT ![name] = v]
                 ELSE permutation_pass(
                          [key \in DOMAIN d |->
                              IF stored_in[key] = stored_in[name] THEN v ELSE d[key]],
                          stored_in, k + 1, permutation)
         IN  written(pass_order[k], perm_value(d, pass_order[k], permutation))

\* the values under the keys of pass_order after the pass
permuted_in_place(d, stored_in, permutation) ==
    LET values(final) == [k \in 1..Len(pass_order) |-> get(final, pass_order[k])]
    IN  values(permutation_pass(d, stored_in, 1, permutation))

\* The permutation pass with `del result['permutation']` one level out of
\* the if: the del runs whenever the pass is reached.
PermutationPass_del_outside_if ==
    /\ op = "load_one" /\ pc = "permutation"
    /\ LET permutation == get(result, "permutation")
           new == [k \in 1..Len(pass_order) |-> perm_value(result, pass_order[k], permutation)]
       IN  IF "permutation" \notin DOMAIN result
           THEN /\ pc' = "raised"
                /\ raised' = Error("KeyError", "permutation")
                /\ UNCHANGED result
           ELSE IF permutation = None
           THEN /\ pc' = "signs"
                /\ result' = del(result, "permutation")
                /\ UNCHANGED raised
           ELSE IF first_error(new) # "none"
           THEN /\ pc' = "raised"
                /\ raised' = Error(first_error(new), "")
                /\ UNCHANGED result
           ELSE /\ pc' = "signs"
                /\ result' = after_pass(result, new, "permutation")
                /\ UNCHANGED raised
    /\ UNCHANGED <<op, filenames, idx, merged, used, opened, out, disk, handles>>
    /\ UNCHANGED <<container_vars, reader_vars, unit_vars>>

\* Apply changes in atomic orbital basis order (iodata.py lines 318-334).
PermutationPass ==
    /\ op = "load_one" /\ pc = "permutation"
    /\ LET permutation == get(result, "permutation")
           new == permuted_in_place(result, [key \in DOMAIN result |-> storage(key)],
                                    permutation)
       IN  IF permutation = None
           THEN /\ pc' = "signs"
                /\ UNCHANGED <<result, raised>>
           ELSE IF first_error(new) # "none"
           THEN /\ pc' = "raised"
                /\ raised' = Error(first_error(new), "")
                /\ UNCHANGED result
           ELSE /\ pc' = "signs"
                /\ result' = after_pass(result, new, "permutation")
                /\ UNCHANGED raised
    /\ UNCHANGED <<op, filenames, idx, merged, used, opened, out, disk, handles>>
    /\ UNCHANGED <<container_vars, reader_vars, unit_vars>>

\* Apply changes in atomic orbital basis sign conventions (lines 336-356).
SignsPass ==
    /\ op = "load_one" /\ pc = "signs"
    /\ LET signs == get(result, "signs")
           new == [k \in 1..Len(pass_order) |-> sign_value(result, pass_order[k], signs)]
       IN  IF signs = None
           THEN /\ pc' = "wrap"
                /\ UNCHANGED <<result, raised>>
           ELSE IF first_error(new) # "none"
           THEN /\ pc' = "raised"
                /\ raised' = Error(first_error(new), "")
                /\ UNCHANGED result
           ELSE /\ pc' = "wrap"
                /\ result' = after_pass(result, new, "signs")
                /\ UNCHANGED raised
    /\ UNCHANGED <<op, filenames, idx, merged, used, opened, out, disk, handles>>
    /\ UNCHANGED <<container_vars, reader_vars, unit_vars>>

\* return IOData(**result)
Wrap ==
    /\ op = "load_one" /\ pc = "wrap"
    /\ IF shapes_match(result)
       THEN /\ out' = result
            /\ pc' = "done"
            /\ UNCHANGED raised
       ELSE /\ raised' = Error("TypeError", "")
            /\ pc' = "raised"
            /\ UNCHANGED out
    /\ UNCHANGED <<op, filenames, idx, result, merged, used, opened, disk, handles>>
    /\ UNCHANGED <<container_vars, reader_vars, unit_vars>>

\* LineIterator.__del__: self._f.close().  It runs when the interpreter
\* finds the object unreferenced, at a time of its choosing.  The local
\* `lit` refers to the LineIterator of the filename opened last for as long
\* as the frame of load_one exists: through the call and, when the call
\* raised, for as long as the exception holds the traceback.
Collect ==
    /\ op = "load_one"
    /\ \E h \in handles :
          /\ (pc # "done") => h # Len(opened)
          /\ handles' = handles \ {h}
    /\ UNCHANGED <<op, filenames, pc, idx, result, merged, used, opened, raised, out, disk>>
    /\ UNCHANGED <<container_vars, reader_vars, unit_vars>>

-----------------------------------------------------------------------------
(* dump_one.                                                               *)

\* xyz.dump: the file is opened for writing, then natom, the title and one
\* line per atom are printed; natom is None without any of numbers,
\* coordinates and pseudo_numbers, and range(None) raises.
xyz_dump(data) ==
    IF {"numbers", "coordinates"} \subseteq DOMAIN data THEN NoError
    ELSE IF {"numbers", "coordinates"} \cap DOMAIN data = {} THEN Error("TypeError", "")
    ELSE Error("AttributeError", "")

\* cube.dump: the file is opened for writing, then the grid is checked.
cube_dump(data) ==
    IF "grid" \notin DOMAIN data THEN Error("AttributeError", "")
    ELSE IF data["grid"].key # "grid"
         THEN Error("ValueError", "The system grid must contain a dict")
    ELSE IF {"coordinates", "numbers", "cube_data"} \subseteq DOMAIN data THEN NoError
    ELSE Error("AttributeError", "")

\* format_module.dump(filename, iodata): what it raises
module_dump(name, data) ==
    CASE name = "cube" -> cube_dump(data)
      [] name = "xyz" -> xyz_dump(data)
      [] OTHER -> NoError

\* dump_one(iodata, filename); the container is in `result`.
DumpOne ==
    /\ op = "dump_one" /\ pc = "dump"
    /\ LET m == select_module(filenames[1].path)
       IN  IF m = 0
           THEN /\ raised' = Error("ValueError", "Unknown file format for writing")
                /\ pc' = "raised"
                /\ UNCHANGED <<used, opened, disk>>
           ELSE IF ~format_modules[m].dump
           \* the module is selected by its patterns; it has no attribute dump
           THEN /\ raised' = Error("AttributeError", "")
                /\ pc' = "raised"
                /\ used' = Append(used, format_modules[m].name)
                /\ UNCHANGED <<opened, disk>>
           ELSE /\ raised' = module_dump(format_modules[m].name, result)
                /\ pc' = IF raised' = NoError THEN "done" ELSE "raised"
                /\ used' = Append(used, format_modules[m].name)
                /\ opened' = Append(opened, <<filenames[1].path, "w">>)
                /\ disk' = IF raised' = NoError THEN "written" ELSE "partial"
    /\ UNCHANGED <<op, filenames, idx, result, merged, out, handles>>
    /\ UNCHANGED <<container_vars, reader_vars, unit_vars>>

-----------------------------------------------------------------------------
(* The type-checked attributes of IOData (ArrayTypeCheckDescriptor).       *)
(*                                                                         *)
(* An array is a record [dtype, shape, a].  A float is held as a count of  *)
(* halves (3 is 1.5), an int as itself, so that a cast changes the data.   *)

ndarray(dtype, shape, v) ==
    [dtype |-> dtype, shape |-> shape, a |-> [ix \in Idx(shape) |-> v]]

\* no array: the argument of a read or a delete, the value of a call that
\* raised
NoArray == [dtype |-> "none", shape |-> <<>>, a |-> [ix \in {} |-> 0]]

\* ndarray.astype(dtype), and the cast of np.array(value, dtype=...): an
\* int becomes the float of the same value, a float is cut to its integer
\* part (the values of the model are not negative)
astype(x, dtype) ==
    IF x.dtype = dtype THEN x
    ELSE IF dtype = "float"
         THEN [dtype |-> "float", shape |-> x.shape, a |-> [ix \in DOMAIN x.a |-> 2 * x.a[ix]]]
    ELSE [dtype |-> "int", shape |-> x.shape, a |-> [ix \in DOMAIN x.a |-> x.a[ix] \div 2]]

\* the descriptors of IOData that have a `matching` list
descriptors ==
    [numbers |-> [ndim |-> 1, shape |-> <<-1>>, dtype |-> "int", default |-> "none"],
     coordinates |-> [ndim |-> 2, shape |-> <<-1, 3>>, dtype |-> "float", default |-> "none"],
     pseudo_numbers |-> [ndim |-> 1, shape |-> <<-1>>, dtype |-> "float",
                         default |-> "numbers"]]

\* a descriptor that checks no other attribute
matching_nothing(name) == <<>>

\* the `matching` argument of each descriptor
matching(name) ==
    CASE name = "numbers" -> <<"coordinates", "pseudo_numbers">>
      [] name = "coordinates" -> <<"numbers", "pseudo_numbers">>
      [] name = "pseudo_numbers" -> <<"coordinates", "numbers">>

\* a __set__ that calls setattr before it compares with the matching
\* attributes
descriptor_set_stores_early(d, name, value) ==
    LET self == descriptors[name]
        v == astype(value, self.dtype)
        stored == [k \in DOMAIN d \cup {name} |-> IF k = name THEN v ELSE d[k]]
    IN  IF Len(v.shape) # self.ndim THEN [exc |-> "TypeError", attrs |-> d]
        ELSE IF \E i \in 1..Len(self.shape) :
                    self.shape[i] >= 0 /\ self.shape[i] # v.shape[i]
             THEN [exc |-> "TypeError", attrs |-> d]
        ELSE IF \E k \in 1..Len(matching(name)) :
                    /\ matching(name)[k] \in DOMAIN d
                    /\ \E i \in 1..Len(self.shape) :
                          self.shape[i] = -1 /\ d[matching(name)[k]].shape[i] # v.shape[i]
             THEN [exc |-> "TypeError", attrs |-> stored]
        ELSE [exc |-> "none", attrs |-> stored]

\* ArrayTypeCheckDescriptor.__set__ on an instance whose private attributes
\* are d (the key "numbers" stands for the attribute _numbers): the
\* exception it raises and the private attributes after it.  The dtype
\* check of lines 109-112 cannot fail after the cast of line 97.
descriptor_set(d, name, value) ==
    LET self == descriptors[name]
        v == astype(value, self.dtype)
    IN  IF Len(v.shape) # self.ndim THEN [exc |-> "TypeError", attrs |-> d]
        ELSE IF \E i \in 1..Len(self.shape) :
                    self.shape[i] >= 0 /\ self.shape[i] # v.shape[i]
             THEN [exc |-> "TypeError", attrs |-> d]
        ELSE IF \E k \in 1..Len(matching(name)) :
                    /\ matching(name)[k] \in DOMAIN d
                    /\ \E i \in 1..Len(self.shape) :
                          self.shape[i] = -1 /\ d[matching(name)[k]].shape[i] # v.shape[i]
             THEN [exc |-> "TypeError", attrs |-> d]
        ELSE [exc |-> "none", attrs |-> [k \in DOMAIN d \cup {name} |->
                                            IF k = name THEN v ELSE d[k]]]

\* ArrayTypeCheckDescriptor.__get__: a descriptor with a default whose own
\* private attribute is not set first sets it to the default attribute cast
\* to its dtype, and then returns the private attribute.
descriptor_get(d, name) ==
    LET self == descriptors[name]
        d1 == IF self.default # "none" /\ name \notin DOMAIN d /\ self.default \in DOMAIN d
              THEN [k \in DOMAIN d \cup {name} |->
                        IF k = name THEN astype(d[self.default], self.dtype) ELSE d[k]]
              ELSE d
    IN  IF name \in DOMAIN d1
        THEN [exc |-> "none", attrs |-> d1, value |-> d1[name]]
        ELSE [exc |-> "AttributeError", attrs |-> d, value |-> NoArray]

\* ArrayTypeCheckDescriptor.__delete__: delattr(obj, '_' + self._name)
descriptor_delete(d, name) ==
    IF name \in DOMAIN d
    THEN [exc |-> "none", attrs |-> [k \in DOMAIN d \ {name} |-> d[k]]]
    ELSE [exc |-> "AttributeError", attrs |-> d]

AttributeNames == {"numbers", "coordinates", "pseudo_numbers"}

\* the values a caller assigns: int and float vectors and float matrices
\* with two or three columns
AssignedValues ==
    {ndarray("int", <<n>>, v) : n \in 0..MaxAtoms, v \in {1, 8}}
    \cup {ndarray("float", <<n>>, 3) : n \in 1..MaxAtoms}
    \cup {ndarray("float", <<n, c>>, 1) : n \in 0..MaxAtoms, c \in {2, 3}}

Access(call, name, arg, exc, value) ==
    [call |-> call, name |-> name, arg |-> arg, exc |-> exc, value |-> value]

\* iodata.name = value
SetAttr ==
    /\ \E name \in AttributeNames, value \in AssignedValues :
          LET r == descriptor_set(attrs, name, value)
          IN  /\ attrs' = r.attrs
              /\ assigned' = IF r.exc = "none" THEN assigned \cup {name} ELSE assigned
              /\ ret' = Access("set", name, value, r.exc, NoArray)
    /\ UNCHANGED <<load_vars, reader_vars, unit_vars>>

\* iodata.name
GetAttr ==
    /\ \E name \in AttributeNames :
          LET r == descriptor_get(attrs, name)
          IN  /\ attrs' = r.attrs
              /\ ret' = Access("get", name, NoArray, r.exc, r.value)
    /\ UNCHANGED assigned
    /\ UNCHANGED <<load_vars, reader_vars, unit_vars>>

\* del iodata.name
DelAttr ==
    /\ \E name \in AttributeNames :
          LET r == descriptor_delete(attrs, name)
          IN  /\ attrs' = r.attrs
              /\ assigned' = IF r.exc = "none" THEN assigned \ {name} ELSE assigned
              /\ ret' = Access("del", name, NoArray, r.exc, NoArray)
    /\ UNCHANGED <<load_vars, reader_vars, unit_vars>>

\* IOData(): no attribute is set
ContainerIdle ==
    /\ attrs = [k \in {} |-> NoArray]
    /\ assigned = {}
    /\ ret = Access("init", "", NoArray, "none", NoArray)

-----------------------------------------------------------------------------
(* LineIterator.                                                           *)

Lines == {"a", "b"}

\* the name of the file a LineIterator reads
lit_filename == <<"a", ".", "x", "y", "z">>

Call(call, line, exc, where, before) ==
    [call |-> call, line |-> line, exc |-> exc, where |-> where, before |-> before]

\* next(lit): the top of the stack when there is one, the next line of the
\* file otherwise; next(self._f) at the end of the file raises StopIteration
\* before the counter is touched.
LitNext ==
    /\ IF Len(stack) > 0
       THEN /\ stack' = SubSeq(stack, 1, Len(stack) - 1)
            /\ lineno' = lineno + 1
            /\ consumed' = Append(consumed, stack[Len(stack)])
            /\ lit_ret' = Call("next", stack[Len(stack)], "none", <<>>, lineno)
            /\ UNCHANGED fpos
       ELSE IF fpos < Len(text)
       THEN /\ fpos' = fpos + 1
            /\ lineno' = lineno + 1
            /\ consumed' = Append(consumed, text[fpos + 1])
            /\ lit_ret' = Call("next", text[fpos + 1], "none", <<>>, lineno)
            /\ UNCHANGED stack
       ELSE /\ lit_ret' = Call("next", "", "StopIteration", <<>>, lineno)
            /\ UNCHANGED <<fpos, stack, lineno, consumed>>
    /\ UNCHANGED <<text, disciplined>>
    /\ UNCHANGED <<load_vars, container_vars, unit_vars>>

\* lit.back(line) without the decrement of the counter
LitBack_keeps_lineno ==
    /\ Len(stack) < MaxStack
    /\ \E line \in Lines :
          /\ stack' = Append(stack, line)
          /\ lineno' = lineno
          /\ disciplined' = (disciplined /\ consumed # <<>> /\ line = consumed[Len(consumed)])
          /\ consumed' = SubSeq(consumed, 1, Len(consumed) - 1)
          /\ lit_ret' = Call("back", line, "none", <<>>, lineno)
    /\ UNCHANGED <<text, fpos>>
    /\ UNCHANGED <<load_vars, container_vars, unit_vars>>

\* lit.back(line): any line may be pushed.  The call is in order when the
\* line is the last one pulled and not pushed back since.
LitBack ==
    /\ Len(stack) < MaxStack
    /\ \E line \in Lines :
          /\ stack' = Append(stack, line)
          /\ lineno' = lineno - 1
          /\ disciplined' = (disciplined /\ consumed # <<>> /\ line = consumed[Len(consumed)])
          /\ consumed' = SubSeq(consumed, 1, Len(consumed) - 1)
          /\ lit_ret' = Call("back", line, "none", <<>>, lineno)
    /\ UNCHANGED <<text, fpos>>
    /\ UNCHANGED <<load_vars, container_vars, unit_vars>>

\* lit.error(msg)
LitError ==
    /\ lit_ret' = Call("error", "", "IOError", error(lit_filename, lineno, "msg").where, lineno)
    /\ UNCHANGED <<text, fpos, stack, lineno, consumed, disciplined>>
    /\ UNCHANGED <<load_vars, container_vars, unit_vars>>

\* the reader of the model's calls of load_one: nothing has been read
ReaderIdle ==
    /\ text = <<>>
    /\ fpos = 0
    /\ stack = <<>>
    /\ lineno = 0
    /\ consumed = <<>>
    /\ disciplined = TRUE
    /\ lit_ret = Call("init", "", "none", <<>>, 0)

-----------------------------------------------------------------------------
(* Text.  A str is a sequence of one-character strings, a text file the    *)
(* sequence of its lines without their line ends.                          *)

DigitChars == <<"0", "1", "2", "3", "4", "5", "6", "7", "8", "9">>
LowerChars ==
    <<"a", "b", "c", "d", "e", "f", "g", "h", "i", "j", "k", "l", "m",
      "n", "o", "p", "q", "r", "s", "t", "u", "v", "w", "x", "y", "z">>
UpperChars ==
    <<"A", "B", "C", "D", "E", "F", "G", "H", "I", "J", "K", "L", "M",
      "N", "O", "P", "Q", "R", "S", "T", "U", "V", "W", "X", "Y", "Z">>

isdigit(c) == \E d \in 1..10 : DigitChars[d] = c
digit_value(c) == (CHOOSE d \in 1..10 : DigitChars[d] = c) - 1
isalpha(c) == \E n \in 1..26 : c \in {LowerChars[n], UpperChars[n]}
char_upper(c) ==
    IF \E n \in 1..26 : LowerChars[n] = c
    THEN UpperChars[CHOOSE n \in 1..26 : LowerChars[n] = c] ELSE c
char_lower(c) ==
    IF \E n \in 1..26 : UpperChars[n] = c
    THEN LowerChars[CHOOSE n \in 1..26 : UpperChars[n] = c] ELSE c

\* str.title(): a letter is upper case after a character that is no
\* letter, lower case after a letter
str_title(s) ==
    [n \in 1..Len(s) |->
        IF n > 1 /\ isalpha(s[n - 1]) THEN char_lower(s[n]) ELSE char_upper(s[n])]

\* s[a:b] and s[a:], 0-based, cut to the length of s
slice(s, a, b) ==
    LET stop == IF b < Len(s) THEN b ELSE Len(s)
    IN  IF a >= stop THEN <<>> ELSE SubSeq(s, a + 1, stop)
slice_from(s, a) == slice(s, a, Len(s))

\* str.startswith(prefix)
startswith(s, prefix) == slice(s, 0, Len(prefix)) = prefix

\* str.strip(); the white space of the model's files is the blank
RECURSIVE lstrip(_)
lstrip(s) == IF s # <<>> /\ s[1] = " " THEN lstrip(Tail(s)) ELSE s
RECURSIVE rstrip(_)
rstrip(s) == IF s # <<>> /\ s[Len(s)] = " " THEN rstrip(SubSeq(s, 1, Len(s) - 1)) ELSE s
strip(s) == rstrip(lstrip(s))

\* str.split(): the words between runs of white space
RECURSIVE split(_)
split(s) ==
    LET cut(t, stop) ==
            IF t = <<>> THEN <<>>
            ELSE <<SubSeq(t, 1, stop - 1)>> \o split(slice_from(t, stop - 1))
        words(t) ==
            cut(t, IF \E n \in 1..Len(t) : t[n] = " "
                   THEN CHOOSE n \in 1..Len(t) : t[n] = " " /\ \A m \in 1..(n - 1) : t[m] # " "
                   ELSE Len(t) + 1)
    IN  words(lstrip(s))

\* sep.join(words)
RECURSIVE join(_, _)
join(sep, words) ==
    IF words = <<>> THEN <<>>
    ELSE IF Len(words) = 1 THEN words[1]
    ELSE words[1] \o sep \o join(sep, Tail(words))

spaces(n) == [k \in 1..n |-> " "]

\* '{:<w}' and '{:>w}': the text is never cut
ljust(s, w) == IF Len(s) >= w THEN s ELSE s \o spaces(w - Len(s))
rjust(s, w) == IF Len(s) >= w THEN s ELSE spaces(w - Len(s)) \o s

\* str(n) of an int
RECURSIVE nat_str(_)
nat_str(n) ==
    IF n < 10 THEN <<DigitChars[n + 1]>>
    ELSE nat_str(n \div 10) \o <<DigitChars[(n % 10) + 1]>>
int_str(n) == IF n < 0 THEN <<"-">> \o nat_str(-n) ELSE nat_str(n)

\* the value of a str of digits
RECURSIVE digits_value(_)
digits_value(s) ==
    IF s = <<>> THEN 0
    ELSE 10 * digits_value(SubSeq(s, 1, Len(s) - 1)) + digit_value(s[Len(s)])

\* what int(s) and float(s) give: the value, or ok = FALSE for ValueError
Parsed(ok, v) == [ok |-> ok, v |-> v]

\* int(s): white space around the number is ignored
parse_int(s) ==
    LET value(neg, body) ==
            IF body = <<>> \/ \E n \in 1..Len(body) : ~isdigit(body[n]) THEN Parsed(FALSE, 0)
            ELSE Parsed(TRUE, IF neg THEN -digits_value(body) ELSE digits_value(body))
        signed(t) ==
            IF t # <<>> /\ t[1] \in {"-", "+"} THEN value(t[1] = "-", Tail(t))
            ELSE value(FALSE, t)
    IN  signed(strip(s))

\* A float, held as the decimal number its text states: the sign, the
\* integer part and the digits after the point, without trailing zeros.
\* The binary rounding of a double is not modelled.
RECURSIVE strip_zeros(_)
strip_zeros(fd) ==
    IF fd # <<>> /\ fd[Len(fd)] = 0 THEN strip_zeros(SubSeq(fd, 1, Len(fd) - 1)) ELSE fd
Float(neg, ip, fd) == [neg |-> neg, ip |-> ip, fd |-> strip_zeros(fd)]
float_of_int(n) == Float(n < 0, IF n < 0 THEN -n ELSE n, <<>>)
float_is_zero(x) == x.ip = 0 /\ x.fd = <<>>
\* x == y of two floats
float_eq(x, y) ==
    /\ x.ip = y.ip /\ x.fd = y.fd
    /\ (x.neg = y.neg \/ float_is_zero(x))

\* float(s) of a plain decimal numeral: [sign] digits [. digits], with a
\* digit on at least one side of the point.  The files of the model hold
\* no exponents, no inf and no nan.
parse_float(s) ==
    LET parts(neg, ipart, fpart) ==
            IF \/ ipart \o fpart = <<>>
               \/ \E n \in 1..Len(ipart) : ~isdigit(ipart[n])
               \/ \E n \in 1..Len(fpart) : ~isdigit(fpart[n])
            THEN Parsed(FALSE, Float(FALSE, 0, <<>>))
            ELSE Parsed(TRUE, Float(neg, digits_value(ipart),
                                    [n \in 1..Len(fpart) |-> digit_value(fpart[n])]))
        value(neg, body, point) ==
            parts(neg, SubSeq(body, 1, point - 1), slice_from(body, point))
        unsigned(neg, body) ==
            value(neg, body, IF \E n \in 1..Len(body) : body[n] = "."
                             THEN CHOOSE n \in 1..Len(body) :
                                     body[n] = "." /\ \A m \in 1..(n - 1) : body[m] # "."
                             ELSE Len(body) + 1)
        signed(t) ==
            IF t # <<>> /\ t[1] \in {"-", "+"} THEN unsigned(t[1] = "-", Tail(t))
            ELSE unsigned(FALSE, t)
    IN  signed(strip(s))

\* digits + 1 at the last place: the digits and the carry out of the first
RECURSIVE increment(_)
increment(digits) ==
    LET carried(r) == [digits |-> Append(r.digits, 0), carry |-> r.carry]
    IN  IF digits = <<>> THEN [digits |-> <<>>, carry |-> 1]
        ELSE IF digits[Len(digits)] < 9
             THEN [digits |-> [digits EXCEPT ![Len(digits)] = @ + 1], carry |-> 0]
        ELSE carried(increment(SubSeq(digits, 1, Len(digits) - 1)))

\* round(x, prec) as '%.{prec}f' rounds: to the nearest, a tie to the even
\* last digit
float_round(x, prec) ==
    LET carried(r) == [neg |-> x.neg, ip |-> x.ip + r.carry, fd |-> r.digits]
        rounded(kept, rest, last) ==
            IF /\ rest # <<>>
               /\ \/ rest[1] > 5
                  \/ rest[1] = 5 /\ (Len(rest) > 1 \/ last % 2 = 1)
            THEN carried(increment(kept))
            ELSE [neg |-> x.neg, ip |-> x.ip, fd |-> kept]
        cut(padded) ==
            rounded(SubSeq(padded, 1, prec), strip_zeros(slice_from(padded, prec)),
                    IF prec = 0 THEN x.ip % 10 ELSE padded[prec])
    IN  cut(x.fd \o [k \in 1..(prec + 1) |-> 0])

\* '{:w.{prec}f}'.format(x): the sign, the integer part, the point and
\* prec digits, padded on the left to w characters and never cut
format_f(x, w, prec) ==
    LET printed(r) ==
            rjust((IF x.neg THEN <<"-">> ELSE <<>>) \o nat_str(r.ip)
                  \o (IF prec > 0 THEN <<".">> ELSE <<>>)
                  \o [n \in 1..prec |-> DigitChars[r.fd[n] + 1]], w)
    IN  printed(float_round(x, prec))

-----------------------------------------------------------------------------
(* The codecs on text: what load makes of the lines of a file and what     *)
(* dump writes.                                                            *)

\* x + y of two floats that are not negative
RECURSIVE add_digits(_, _)
add_digits(a, b) ==
    LET sum(r, digit) == [digits |-> <<digit % 10>> \o r.digits, carry |-> digit \div 10]
        carried(r) == sum(r, a[1] + b[1] + r.carry)
    IN  IF a = <<>> THEN [digits |-> <<>>, carry |-> 0]
        ELSE carried(add_digits(Tail(a), Tail(b)))
float_add(x, y) ==
    LET sum(r) == Float(FALSE, x.ip + y.ip + r.carry, r.digits)
        padded(n) == sum(add_digits(x.fd \o [k \in 1..(n - Len(x.fd)) |-> 0],
                                    y.fd \o [k \in 1..(n - Len(y.fd)) |-> 0]))
    IN  padded(IF Len(x.fd) >= Len(y.fd) THEN Len(x.fd) ELSE Len(y.fd))

\* x <= y of two floats that are not negative
float_le(x, y) ==
    LET digit(fd, k) == IF k <= Len(fd) THEN fd[k] ELSE 0
        differ(k) == digit(x.fd, k) # digit(y.fd, k)
    IN  \/ x.ip < y.ip
        \/ /\ x.ip = y.ip
           /\ \A k \in 1..(Len(x.fd) + Len(y.fd)) :
                  (differ(k) /\ \A j \in 1..(k - 1) : ~differ(j)) =>
                      digit(x.fd, k) < digit(y.fd, k)

\* abs(x - y) <= atol, as numpy.testing.assert_allclose(x, y, atol, rtol=0)
float_close(x, y, atol) ==
    IF x.neg = y.neg
    THEN float_le(x, float_add(y, atol)) /\ float_le(y, float_add(x, atol))
    ELSE float_le(float_add(x, y), atol)

\* utils.angstrom is the number of internal length units of one angstrom,
\* 1.8897...  A length that a codec obtained as float(...) * angstrom is
\* held as the float of the text, the number of angstroms, and
\* value / angstrom gives that float back; a tolerance of 1e-8 internal
\* units is 5.29e-9 angstrom, cut here to 5.2e-9.
atol_angstrom == Float(FALSE, 0, <<0, 0, 0, 0, 0, 0, 0, 0, 5, 2>>)

\* iodata.periodic: the element symbols, each at the place of its atomic
\* number.  sym2num is the dict of the symbols, num2sym its inverse; the
\* model has the first rows of the table, and 0 is no atomic number.
elements ==
    <<<<"H">>, <<"H", "e">>, <<"L", "i">>, <<"B", "e">>, <<"B">>, <<"C">>, <<"N">>, <<"O">>>>
sym2num_has(sym) == \E n \in 1..Len(elements) : elements[n] = sym
sym2num(sym) == CHOOSE n \in 1..Len(elements) : elements[n] = sym
num2sym_has(num) == num \in 1..Len(elements)
num2sym(num) == elements[num]

\* IOData.natom: the length of the first of numbers, coordinates and
\* pseudo_numbers that is set, None without any of them
has_natom(data) == {"numbers", "coordinates", "pseudo_numbers"} \cap DOMAIN data # {}
natom(data) ==
    IF "numbers" \in DOMAIN data THEN Len(data["numbers"])
    ELSE IF "coordinates" \in DOMAIN data THEN Len(data["coordinates"])
    ELSE Len(data["pseudo_numbers"])

\* what dump leaves: the exception it raised and the lines printed before
written(exc, lines) == [exc |-> exc, lines |-> lines]

\* xyz.load, the loop over the atom lines: lines[at] is the line that
\* next(lit) gives
RECURSIVE xyz_load_atoms(_, _, _, _, _)
xyz_load_atoms(lines, at, size, numbers, coordinates) ==
    LET fail(exc) == [exc |-> exc, numbers |-> <<>>, coordinates |-> <<>>]
        label(word, symbol) ==
            IF sym2num_has(symbol) THEN Parsed(TRUE, sym2num(symbol)) ELSE parse_int(word)
        atom(words, number, xyz) ==
            IF ~number.ok THEN fail("ValueError")
            ELSE IF \E c \in 1..3 :
                       /\ \A b \in 1..(c - 1) : Len(words) > b /\ xyz[b].ok
                       /\ Len(words) <= c
                 THEN fail("IndexError")
            ELSE IF \E c \in 1..3 : ~xyz[c].ok THEN fail("ValueError")
            ELSE xyz_load_atoms(lines, at + 1, size, Append(numbers, number.v),
                                Append(coordinates, [c \in 1..3 |-> xyz[c].v]))
        line(words) ==
            IF words = <<>> THEN fail("IndexError")
            ELSE atom(words, label(words[1], str_title(words[1])),
                      [c \in 1..3 |->
                          IF Len(words) > c THEN parse_float(words[c + 1])
                          ELSE Parsed(FALSE, Float(FALSE, 0, <<>>))])
    IN  IF Len(numbers) = size
        THEN [exc |-> "none", numbers |-> numbers, coordinates |-> coordinates]
        ELSE IF at > Len(lines) THEN fail("StopIteration")
        ELSE line(split(lines[at]))

\* xyz.load(lit) of a LineIterator over the lines
xyz_load_text(lines) ==
    LET loaded(atoms) ==
            IF atoms.exc # "none" THEN raises(atoms.exc)
            ELSE returns([k \in {"title", "coordinates", "numbers"} |->
                            CASE k = "title" -> strip(lines[2])
                              [] k = "coordinates" -> atoms.coordinates
                              [] k = "numbers" -> atoms.numbers])
        sized(size) ==
            IF ~size.ok THEN raises("ValueError")
            ELSE IF Len(lines) < 2 THEN raises("StopIteration")
            \* np.empty((size, 3), float) of a negative size
            ELSE IF size.v < 0 THEN raises("ValueError")
            ELSE loaded(xyz_load_atoms(lines, 3, size.v, <<>>, <<>>))
    IN  IF Len(lines) < 1 THEN raises("StopIteration")
        ELSE sized(parse_int(lines[1]))

\* xyz.dump, the loop over the atoms
RECURSIVE xyz_dump_atoms(_, _, _)
xyz_dump_atoms(data, i, lines) ==
    LET atom(n, x) ==
            xyz_dump_atoms(data, i + 1,
                Append(lines, ljust(n, 2)
                              \o join(<<>>, [c \in 1..3 |-> <<" ">> \o format_f(x[c], 15, 10)])))
    IN  IF i > natom(data) THEN written("none", lines)
        ELSE IF "numbers" \notin DOMAIN data THEN written("AttributeError", lines)
        ELSE IF ~num2sym_has(data["numbers"][i]) THEN written("KeyError", lines)
        ELSE IF "coordinates" \notin DOMAIN data THEN written("AttributeError", lines)
        ELSE atom(num2sym(data["numbers"][i]), data["coordinates"][i])

\* xyz.dump(filename, data): the lines in the file when dump returns or
\* raises; open(filename, 'w') has emptied the file before the first print
xyz_dump_text(data) ==
    LET header(first, title) ==
            \* range(None)
            IF ~has_natom(data) THEN written("TypeError", <<first, title>>)
            ELSE xyz_dump_atoms(data, 1, <<first, title>>)
    IN  header(IF has_natom(data) THEN nat_str(natom(data)) ELSE <<"N", "o", "n", "e">>,
               IF "title" \in DOMAIN data THEN data["title"]
               ELSE <<"C", "r", "e", "a", "t", "e", "d", " ", "w", "i", "t", "h", " ",
                      "I", "O", "D", "A", "T", "A", " ", "m", "o", "d", "u", "l", "e">>)

\* None where a str is expected: no str of one-character strings equals it
NoneStr == <<"None">>

\* a str literal of the sources, as a sequence of one-character strings
str_end == <<"e", "n", "d">>
str_PBC == <<"P", "B", "C">>
str_XXXX == <<"X", "X", "X", "X">>

\* car.load_one, the loop over the lines; acc holds the title and the
\* lists filled so far.  sym2num.get gives None for a symbol that is not
\* in the table: None is held as 0 in atnums.
RECURSIVE car_load_lines(_, _, _)
car_load_lines(lines, at, acc) ==
    \* x: the three coordinates and the charge
    LET atom(line, x, resnum, symbol) ==
            IF \E c \in 1..3 : ~x[c].ok THEN [exc |-> "ValueError", acc |-> acc]
            ELSE IF ~resnum.ok THEN [exc |-> "ValueError", acc |-> acc]
            ELSE IF ~x[4].ok THEN [exc |-> "ValueError", acc |-> acc]
            ELSE car_load_lines(lines, at + 1,
                    [acc EXCEPT !.atnames = Append(@, strip(slice(line, 0, 5))),
                                !.atcoords = Append(@, [c \in 1..3 |-> x[c].v]),
                                !.restypes = Append(@, slice(line, 51, 55)),
                                !.resnums = Append(@, resnum.v),
                                !.attypes = Append(@, strip(slice(line, 63, 69))),
                                !.atnums = Append(@, IF sym2num_has(symbol)
                                                     THEN sym2num(symbol) ELSE 0),
                                !.charges = Append(@, x[4].v)])
        next(line) ==
            IF startswith(line, <<"!">>) \/ startswith(line, str_PBC)
            THEN car_load_lines(lines, at + 1, acc)
            ELSE IF line = str_end THEN [exc |-> "none", acc |-> acc]
            ELSE IF acc.title = NoneStr
                 THEN car_load_lines(lines, at + 1, [acc EXCEPT !.title = strip(line)])
            ELSE atom(line,
                      [c \in 1..4 |->
                          parse_float(IF c < 4 THEN slice(line, 15 * c - 9, 15 * c + 5)
                                      ELSE slice_from(line, 73))],
                      parse_int(slice(line, 56, 62)),
                      str_title(strip(slice(line, 70, 72))))
    IN  IF at > Len(lines) THEN [exc |-> "none", acc |-> acc]
        ELSE next(lines[at])

\* car.load_one(lit)
car_load_text(lines) ==
    LET loaded(r) ==
            IF r.exc # "none" THEN raises(r.exc)
            ELSE returns(
                [k \in {"atnums", "atcoords", "atffparams", "title", "extra"} |->
                    CASE k = "atnums" -> r.acc.atnums
                      [] k = "atcoords" -> r.acc.atcoords
                      [] k = "atffparams" ->
                            [f \in {"restypes", "resnums", "attypes", "charges"} |->
                                CASE f = "restypes" -> r.acc.restypes
                                  [] f = "resnums" -> r.acc.resnums
                                  [] f = "attypes" -> r.acc.attypes
                                  [] f = "charges" -> r.acc.charges]
                      [] k = "title" -> r.acc.title
                      [] k = "extra" -> [f \in {"atnames"} |-> r.acc.atnames]])
    IN  loaded(car_load_lines(lines, 1,
                   [title |-> NoneStr, atnames |-> <<>>, atcoords |-> <<>>,
                    restypes |-> <<>>, resnums |-> <<>>, attypes |-> <<>>,
                    atnums |-> <<>>, charges |-> <<>>]))

\* the defaults car.dump_one and mdf.dump_one substitute
default_atnames(data) ==
    [i \in 1..Len(data["atnums"]) |-> num2sym(data["atnums"][i]) \o nat_str(i)]
default_attypes(data) == [i \in 1..Len(data["atnums"]) |-> num2sym(data["atnums"][i])]
default_restypes(data) == [i \in 1..natom(data) |-> str_XXXX]
default_resnums(data) == [i \in 1..natom(data) |-> 1]
default_zeros(data) == [i \in 1..natom(data) |-> Float(FALSE, 0, <<>>)]
default_ones(data) == [i \in 1..natom(data) |-> Float(FALSE, 1, <<>>)]

\* the first exception of the statements of car.dump_one and mdf.dump_one
\* that make the lists atnames, restypes, resnums, atcharges and attypes,
\* "none" when they all run
dump_lists_exc(data) ==
    IF "extra" \notin DOMAIN data THEN "AttributeError"
    ELSE IF "atnames" \notin DOMAIN data["extra"] /\ "atnums" \notin DOMAIN data
         THEN "AttributeError"
    ELSE IF "atnames" \notin DOMAIN data["extra"]
            /\ \E i \in 1..Len(data["atnums"]) : ~num2sym_has(data["atnums"][i])
         THEN "KeyError"
    ELSE IF "atffparams" \notin DOMAIN data THEN "AttributeError"
    \* ["XXXX"] * None, np.ones(None), np.zeros(None)
    ELSE IF {"restypes", "resnums", "charges"} \ DOMAIN data["atffparams"] # {}
            /\ ~has_natom(data)
         THEN "TypeError"
    ELSE IF "attypes" \notin DOMAIN data["atffparams"] /\ "atnums" \notin DOMAIN data
         THEN "AttributeError"
    ELSE IF "attypes" \notin DOMAIN data["atffparams"]
            /\ \E i \in 1..Len(data["atnums"]) : ~num2sym_has(data["atnums"][i])
         THEN "KeyError"
    ELSE "none"

\* the five lists, when they were all made
dump_lists(data) ==
    LET extra == data["extra"]
        ff == data["atffparams"]
    IN  [atnames |-> IF "atnames" \in DOMAIN extra THEN extra["atnames"]
                     ELSE default_atnames(data),
         restypes |-> IF "restypes" \in DOMAIN ff THEN ff["restypes"]
                      ELSE default_restypes(data),
         resnums |-> IF "resnums" \in DOMAIN ff THEN ff["resnums"] ELSE default_resnums(data),
         charges |-> IF "charges" \in DOMAIN ff THEN ff["charges"] ELSE default_zeros(data),
         attypes |-> IF "attypes" \in DOMAIN ff THEN ff["attypes"] ELSE default_attypes(data)]

\* car.dump_one, the loop over the atoms
RECURSIVE car_dump_atoms(_, _, _, _)
car_dump_atoms(data, lists, i, lines) ==
    LET atom(x) ==
            car_dump_atoms(data, lists, i + 1,
                Append(lines,
                       ljust(lists.atnames[i], 5)
                       \o join(<<>>, [c \in 1..3 |-> <<" ">> \o format_f(x[c], 14, 9)])
                       \o <<" ">> \o ljust(lists.restypes[i], 4)
                       \o <<" ">> \o ljust(int_str(lists.resnums[i]), 6)
                       \o <<" ">> \o ljust(lists.attypes[i], 6)
                       \o <<" ">> \o rjust(num2sym(data["atnums"][i]), 2)
                       \o <<" ">> \o format_f(lists.charges[i], 7, 3)))
    IN  IF i > natom(data) THEN written("none", lines \o <<str_end, str_end>>)
        ELSE IF i > Len(lists.atnames) THEN written("IndexError", lines)
        ELSE IF "atcoords" \notin DOMAIN data THEN written("AttributeError", lines)
        ELSE IF i > Len(data["atcoords"]) THEN written("IndexError", lines)
        ELSE IF i > Len(lists.restypes) \/ i > Len(lists.resnums) \/ i > Len(lists.attypes)
             THEN written("IndexError", lines)
        ELSE IF "atnums" \notin DOMAIN data THEN written("AttributeError", lines)
        ELSE IF i > Len(data["atnums"]) THEN written("IndexError", lines)
        ELSE IF ~num2sym_has(data["atnums"][i]) THEN written("KeyError", lines)
        ELSE IF i > Len(lists.charges) THEN written("IndexError", lines)
        ELSE atom(data["atcoords"][i])

\* the text of the lines of a header
str_biosym_archive ==
    <<"!", "B", "I", "O", "S", "Y", "M", " ", "a", "r", "c", "h", "i", "v", "e", " ", "3">>
str_pbc_off == <<"P", "B", "C", "=", "O", "F", "F">>
str_created == <<"C", "r", "e", "a", "t", "e", "d", " ", "w", "i", "t", "h", " ",
                 "I", "O", "D", "a", "t", "a">>
\* "!DATE {:%c}".format(datetime.datetime.now()), whatever the time is
str_date == <<"!", "D", "A", "T", "E", " ", "n", "o", "w">>

\* car.dump_one(f, data): the lines printed to f when it returns or raises
car_dump_text(data) ==
    LET head == <<str_biosym_archive, str_pbc_off>>
        lists(header, exc) ==
            IF exc # "none" THEN written(exc, header)
            \* range(data.natom) of None
            ELSE IF ~has_natom(data) THEN written("TypeError", header)
            ELSE car_dump_atoms(data, dump_lists(data), 1, header)
    IN  IF "title" \notin DOMAIN data THEN written("AttributeError", head)
        ELSE lists(head \o <<IF data["title"] \in {NoneStr, <<>>} THEN str_created
                             ELSE data["title"], str_date>>,
                   dump_lists_exc(data))

\* str literals of mdf.py
str_hash_end == <<"#", "e", "n", "d">>
str_topology == <<"t", "o", "p", "o", "l", "o", "g", "y">>
str_column == <<"c", "o", "l", "u", "m", "n">>
str_molecule == <<"m", "o", "l", "e", "c", "u", "l", "e">>
str_at_molecule == <<"@", "m", "o", "l", "e", "c", "u", "l", "e">>
str_mdf_fixed1 == <<" ", " ", " ", " ", " ", " ", "1", " ", " ", " ", " ", " ", "0", " ", " ",
          "0", " ">>
str_mdf_fixed2 == <<" ", "0", " ", "0", " ", "8", " ">>

\* EXPECTED_COLUMNS
EXPECTED_COLUMNS ==
    <<<<"e", "l", "e", "m", "e", "n", "t">>,
      <<"a", "t", "o", "m", "_", "t", "y", "p", "e">>,
      <<"c", "h", "a", "r", "g", "e", "_", "g", "r", "o", "u", "p">>,
      <<"i", "s", "o", "t", "o", "p", "e">>,
      <<"f", "o", "r", "m", "a", "l", "_", "c", "h", "a", "r", "g", "e">>,
      <<"c", "h", "a", "r", "g", "e">>,
      <<"s", "w", "i", "t", "c", "h", "i", "n", "g", "_", "a", "t", "o", "m">>,
      <<"o", "o", "p", "_", "f", "l", "a", "g">>,
      <<"c", "h", "i", "r", "a", "l", "i", "t", "y", "_", "f", "l", "a", "g">>,
      <<"o", "c", "c", "u", "p", "a", "n", "c", "y">>,
      <<"x", "r", "a", "y", "_", "t", "e", "m", "p", "_", "f", "a", "c", "t", "o", "r">>,
      <<"c", "o", "n", "n", "e", "c", "t", "i", "o", "n", "s">>>>

\* _load_mdf_base, the loop over the lines: sections is the dict as the
\* sequence of its items <<name, fields>>, a field being <<name, lines>>;
\* my_section is the place of the current section in it, 0 for None
RECURSIVE load_mdf_base(_, _, _, _)
load_mdf_base(lines, at, sections, my_section) ==
    LET next(line) ==
            IF startswith(line, <<"!">>) \/ line = <<>>
            THEN load_mdf_base(lines, at + 1, sections, my_section)
            ELSE IF line = str_hash_end THEN [exc |-> "none", sections |-> sections]
            ELSE IF startswith(line, <<"#">>)
                 THEN load_mdf_base(lines, at + 1,
                          Append(sections, [name |-> Tail(line), fields |-> <<>>]),
                          Len(sections) + 1)
            \* None.append, [][-1]
            ELSE IF my_section = 0 THEN [exc |-> "AttributeError", sections |-> sections]
            ELSE IF startswith(line, <<"@">>)
                 THEN load_mdf_base(lines, at + 1,
                          [sections EXCEPT ![my_section].fields =
                              Append(@, [name |-> Tail(line), lines |-> <<>>])],
                          my_section)
            ELSE IF sections[my_section].fields = <<>>
                 THEN [exc |-> "IndexError", sections |-> sections]
            ELSE load_mdf_base(lines, at + 1,
                     [sections EXCEPT
                         ![my_section].fields[Len(sections[my_section].fields)].lines =
                             Append(@, line)],
                     my_section)
    IN  IF at > Len(lines) THEN [exc |-> "none", sections |-> sections]
        ELSE next(strip(lines[at]))

\* mdf.load_one, the loop over the fields of the topology section; lit.error
\* raises IOError
RECURSIVE mdf_load_fields(_, _, _, _)
mdf_load_fields(fields, at, icol, molecule) ==
    IF at > Len(fields) THEN [exc |-> "none", molecule |-> molecule]
    ELSE LET field == fields[at].name
         IN  IF startswith(field, str_column)
             THEN IF icol >= Len(EXPECTED_COLUMNS) \/
                     field # str_column \o <<" ">> \o nat_str(icol + 1) \o <<" ">>
                             \o EXPECTED_COLUMNS[icol + 1]
                  THEN [exc |-> "IOError", molecule |-> molecule]
                  ELSE mdf_load_fields(fields, at + 1, icol + 1, molecule)
             ELSE IF startswith(field, str_molecule)
                  THEN mdf_load_fields(fields, at + 1, icol,
                           [found |-> TRUE, title |-> strip(slice_from(field, 8)),
                            mol_lines |-> fields[at].lines])
             ELSE mdf_load_fields(fields, at + 1, icol, molecule)

\* the places of a character in a str
places(s, c) == {n \in 1..Len(s) : s[n] = c}

\* mdf.load_one, the loop over the molecule lines
RECURSIVE mdf_load_atoms(_, _, _)
mdf_load_atoms(mol_lines, at, acc) ==
    LET fail(exc) == [exc |-> exc, acc |-> acc]
        \* x: the charge, the occupancy and the B-factor
        atom(line, key, res, atname, restype, resnum, symbol, x, words) ==
            IF ~resnum.ok THEN fail("ValueError")
            ELSE IF ~sym2num_has(symbol) THEN fail("KeyError")
            ELSE IF \E c \in 1..3 : ~x[c].ok THEN fail("ValueError")
            ELSE mdf_load_atoms(mol_lines, at + 1,
                    [acc EXCEPT !.keys = Append(@, key),
                                !.restypes = Append(@, restype),
                                !.resnums = Append(@, resnum.v),
                                !.atnames = Append(@, atname),
                                !.atnums = Append(@, sym2num(symbol)),
                                !.attypes = Append(@, strip(slice(line, 22, 25))),
                                !.charges = Append(@, x[1].v),
                                !.occupancies = Append(@, x[2].v),
                                !.bfactors = Append(@, x[3].v),
                                !.neighbors = Append(@,
                                    [n \in 1..Len(words) |-> res \o <<":">> \o words[n]])])
        \* restype, resnum = res.split("_")
        residue(line, key, res, atname) ==
            IF Cardinality(places(res, "_")) # 1 THEN fail("ValueError")
            ELSE atom(line, key, res, atname,
                      SubSeq(res, 1, (CHOOSE n \in places(res, "_") : TRUE) - 1),
                      parse_int(slice_from(res, CHOOSE n \in places(res, "_") : TRUE)),
                      str_title(strip(slice(line, 19, 21))),
                      [c \in 1..3 |->
                          parse_float(CASE c = 1 -> slice(line, 42, 52)
                                        [] c = 2 -> slice(line, 59, 65)
                                        [] c = 3 -> slice(line, 66, 73))],
                      split(slice_from(line, 74)))
        \* res, atname = key.split(":")
        keyed(line, key) ==
            IF Cardinality(places(key, ":")) # 1 THEN fail("ValueError")
            ELSE residue(line, key,
                         SubSeq(key, 1, (CHOOSE n \in places(key, ":") : TRUE) - 1),
                         slice_from(key, CHOOSE n \in places(key, ":") : TRUE))
        next(line) == keyed(line, strip(slice(line, 0, 18)))
    IN  IF at > Len(mol_lines) THEN [exc |-> "none", acc |-> acc]
        ELSE next(mol_lines[at])

\* the bonds of mdf.load_one: [iatom0, iatom1, 1] for every neighbour
\* listed after its atom, None (here <<>>) without any; keys2iatom has the
\* last atom of a key
mdf_bonds(acc) ==
    LET natoms == Len(acc.keys)
        iatom(key) == CHOOSE i \in 1..natoms :
                          acc.keys[i] = key /\ \A j \in (i + 1)..natoms : acc.keys[j] # key
        bonds(pairs) ==
            IF \E p \in pairs : \A i \in 1..natoms : acc.keys[i] # acc.neighbors[p[1]][p[2]]
            THEN [exc |-> "KeyError", bonds |-> {}]
            ELSE [exc |-> "none",
                  bonds |-> {<<p[1] - 1, iatom(acc.neighbors[p[1]][p[2]]) - 1>> :
                                p \in {q \in pairs : iatom(acc.neighbors[q[1]][q[2]]) > q[1]}}]
    IN  bonds({<<i0, n>> \in (1..natoms) \X (1..natoms) : n <= Len(acc.neighbors[i0])})

\* mdf.load_one(lit).  The bonds are held as the set of the pairs
\* <<iatom0, iatom1>>, 0-based: None and the order of the rows are not
\* told apart.
mdf_load_text(lines) ==
    LET bonded(title, acc, bonds) ==
            IF bonds.exc # "none" THEN raises(bonds.exc)
            ELSE returns(
                [k \in {"atnums", "bonds", "atffparams", "title", "extra"} |->
                    CASE k = "atnums" -> acc.atnums
                      [] k = "bonds" -> bonds.bonds
                      [] k = "atffparams" ->
                            [f \in {"attypes", "charges", "resnums", "restypes"} |->
                                CASE f = "attypes" -> acc.attypes
                                  [] f = "charges" -> acc.charges
                                  [] f = "resnums" -> acc.resnums
                                  [] f = "restypes" -> acc.restypes]
                      [] k = "title" -> title
                      [] k = "extra" ->
                            [f \in {"occupancies", "bfactors", "atnames"} |->
                                CASE f = "occupancies" -> acc.occupancies
                                  [] f = "bfactors" -> acc.bfactors
                                  [] f = "atnames" -> acc.atnames]])
        parsed(title, atoms) ==
            IF atoms.exc # "none" THEN raises(atoms.exc)
            ELSE bonded(title, atoms.acc, mdf_bonds(atoms.acc))
        molecule(found) ==
            IF found.exc # "none" THEN raises(found.exc)
            \* mol_lines was never bound
            ELSE IF ~found.molecule.found THEN raises("UnboundLocalError")
            ELSE parsed(found.molecule.title,
                        mdf_load_atoms(found.molecule.mol_lines, 1,
                            [keys |-> <<>>, restypes |-> <<>>, resnums |-> <<>>,
                             atnames |-> <<>>, atnums |-> <<>>, attypes |-> <<>>,
                             charges |-> <<>>, occupancies |-> <<>>, bfactors |-> <<>>,
                             neighbors |-> <<>>]))
        \* a later '#topology' line replaces the dict entry
        topology(sections, tops) ==
            IF tops = {} THEN raises("KeyError")
            ELSE molecule(mdf_load_fields(
                     sections[CHOOSE n \in tops : \A m \in tops : m <= n].fields, 1, 0,
                     [found |-> FALSE, title |-> <<>>, mol_lines |-> <<>>]))
        based(base) ==
            IF base.exc # "none" THEN raises(base.exc)
            ELSE topology(base.sections,
                          {n \in 1..Len(base.sections) : base.sections[n].name = str_topology})
    IN  based(load_mdf_base(lines, 1, <<>>, 0))

\* MDF_HEADER.format(now), line by line; the date is whatever it is
MDF_HEADER ==
    <<<<"!", "B", "I", "O", "S", "Y", "M", " ", "m", "o", "l", "e", "c", "u", "l",
          "a", "r", "_", "d", "a", "t", "a", " ", "4">>,
      <<>>,
      <<"!", "D", "a", "t", "e", ":", " ", "n", "o", "w", " ", " ", " ", "I", "O",
          "D", "a", "t", "a", " ", "G", "e", "n", "e", "r", "a", "t", "e", "d", " ",
          "M", "D", "F", " ", "f", "i", "l", "e">>,
      <<>>,
      <<"#">> \o str_topology,
      <<>>>>
    \o [n \in 1..Len(EXPECTED_COLUMNS) |->
           <<"@">> \o str_column \o <<" ">> \o nat_str(n) \o <<" ">> \o EXPECTED_COLUMNS[n]]
    \o <<<<>>>>

\* connections of mdf.dump_one: for every bond, in some order, each atom
\* gets the name of the other; the names of an atom are written here by
\* rising place of the other atom
RECURSIVE names_of(_, _)
names_of(atnames, others) ==
    IF others = {} THEN <<>>
    ELSE LET first == CHOOSE i \in others : \A j \in others : i <= j
         IN  <<atnames[first + 1]>> \o names_of(atnames, others \ {first})
mdf_connections(data, atnames, i) ==
    names_of(atnames,
             {b[2] : b \in {c \in data["bonds"] : c[1] = i - 1}}
             \cup {b[1] : b \in {c \in data["bonds"] : c[2] = i - 1}})

\* mdf.dump_one, the loop over the atoms
RECURSIVE mdf_dump_atoms(_, _, _, _, _, _)
mdf_dump_atoms(data, lists, occupancies, bfactors, i, lines) ==
    LET atom(key) ==
            mdf_dump_atoms(data, lists, occupancies, bfactors, i + 1,
                Append(lines,
                       ljust(key, 18) \o <<" ">>
                       \o rjust(num2sym(data["atnums"][i]), 2) \o <<" ">>
                       \o rjust(lists.attypes[i], 3) \o str_mdf_fixed1
                       \o format_f(lists.charges[i], 10, 4) \o str_mdf_fixed2
                       \o format_f(occupancies[i], 6, 4) \o <<" ">>
                       \o format_f(bfactors[i], 7, 4) \o <<" ">>
                       \o join(<<" ">>, mdf_connections(data, lists.atnames, i))))
    IN  IF i > natom(data) THEN written("none", lines \o <<<<>>, str_hash_end>>)
        ELSE IF i > Len(lists.restypes) \/ i > Len(lists.resnums) \/ i > Len(lists.atnames)
             THEN written("IndexError", lines)
        ELSE IF "atnums" \notin DOMAIN data THEN written("AttributeError", lines)
        ELSE IF i > Len(data["atnums"]) THEN written("IndexError", lines)
        ELSE IF ~num2sym_has(data["atnums"][i]) THEN written("KeyError", lines)
        ELSE IF i > Len(lists.attypes) \/ i > Len(lists.charges) \/ i > Len(occupancies)
                \/ i > Len(bfactors)
             THEN written("IndexError", lines)
        ELSE atom(lists.restypes[i] \o <<"_">> \o int_str(lists.resnums[i]) \o <<":">>
                  \o lists.atnames[i])

\* mdf.dump_one(f, data): the lines written to f when it returns or raises
mdf_dump_text(data) ==
    LET lists(head, exc) ==
            IF exc # "none" THEN written(exc, head)
            \* np.ones(data.natom), np.zeros(data.natom), range(data.natom) of None
            ELSE IF ~has_natom(data) THEN written("TypeError", head)
            ELSE IF "bonds" \notin DOMAIN data THEN written("AttributeError", head)
            \* occupancies are looked up in atffparams, bfactors in extra
            ELSE mdf_dump_atoms(data, dump_lists(data),
                     IF "occupancies" \in DOMAIN data["atffparams"]
                     THEN data["atffparams"]["occupancies"] ELSE default_ones(data),
                     IF "bfactors" \in DOMAIN data["extra"] THEN data["extra"]["bfactors"]
                     ELSE default_zeros(data),
                     1, head)
    IN  IF "title" \notin DOMAIN data THEN written("AttributeError", MDF_HEADER)
        ELSE lists(MDF_HEADER
                   \o <<str_at_molecule \o <<" ">>
                        \o (IF data["title"] = NoneStr THEN <<"N", "o", "n", "e">>
                            ELSE data["title"]),
                        <<>>>>,
                   dump_lists_exc(data))

-----------------------------------------------------------------------------
(* The functions called on their own, before any call.                     *)

RoundTripIdle ==
    /\ rt_pc = "idle"
    /\ rt_codec = <<"none", "none", FALSE>>
    /\ rt_file = <<>>
    /\ mol0 = empty_dict
    /\ rt_out = <<>>
    /\ mol1 = empty_dict
    /\ rt_exc = "none"

ShellsIdle ==
    /\ fp_shells = <<>>
    /\ fp_perm = <<>>
    /\ fp_pc = "idle"

WfnIdle ==
    /\ wfn_types = <<>>
    /\ wfn_index = 0
    /\ wfn_perm = <<>>
    /\ wfn_pc = "idle"
    /\ wfn_iter = 0

TensorIdle ==
    /\ two_mo = <<>>
    /\ two_mo_set = <<>>
    /\ two_mo_calls = 0

UnitIdle == RoundTripIdle /\ ShellsIdle /\ WfnIdle /\ TensorIdle

-----------------------------------------------------------------------------
(* The calls of the model.                                                 *)

InitLoad ==
    /\ op = "load_one"
    /\ filenames \in ArgLists
    /\ pc = IF filenames = <<>> THEN "permutation" ELSE "loop"
    /\ idx = 1
    /\ result = empty_dict
    /\ merged = empty_dict
    /\ used = <<>>
    /\ opened = <<>>
    /\ raised = NoError
    /\ out = empty_dict
    /\ disk = "old"
    /\ handles = {}
    /\ ContainerIdle /\ ReaderIdle /\ UnitIdle

InitDump ==
    /\ op = "dump_one"
    /\ filenames \in [1..1 -> Files]
    /\ pc = "dump"
    /\ idx = 1
    /\ result \in Containers
    /\ merged = empty_dict
    /\ used = <<>>
    /\ opened = <<>>
    /\ raised = NoError
    /\ out = empty_dict
    /\ disk = "old"
    /\ handles = {}
    /\ ContainerIdle /\ ReaderIdle /\ UnitIdle

Init == InitLoad \/ InitDump

Next ==
    \/ LoadUnknown
    \/ LoadFile
    \/ LoadRaises
    \/ PermutationPass
    \/ SignsPass
    \/ Wrap
    \/ Collect
    \/ DumpOne

Spec == Init /\ [][Next]_vars

-----------------------------------------------------------------------------
(* The reordering engine on its own: load_one from the end of the file     *)
(* loop on, started on any merged mapping a set of codecs may leave.       *)

\* the permutations of 0..n-1, as 0-based sequences
Perms(n) == {p \in [1..n -> 0..(n - 1)] : \A i, j \in 1..n : p[i] = p[j] => i = j}

\* the sign vectors of length n
Signs(n) == [1..n -> {-1, 1}]

Absent == [t |-> "absent"]

\* what a merged mapping may hold under a control key: no such key, None,
\* an empty array, or a vector of the size of the basis
PermChoices(nb) == {Absent, None, Vector(<<>>)} \cup {Vector(p) : p \in Perms(nb)}
SignChoices(nb) == {Absent, None, Vector(<<>>)} \cup {Vector(s) : s \in Signs(nb)}

\* the basis-indexed keys a merged mapping holds
EngineKeySets ==
    {{two_index_names[k]} : k \in 1..Len(two_index_names)}
    \cup {{}, {"er"}, {"orb_alpha_coeffs"}, {"orb_alpha_coeffs", "orb_beta_coeffs"},
          {"dm_full_scf", "kin", "er", "orb_alpha_coeffs", "orb_beta_coeffs"}}

\* The tensor under a key.  Density matrices are symmetric, as load_dm
\* builds them; the operators, the four-index tensor and the coefficients
\* have one value per index tuple, so that any reordering shows.
engine_value(key, nb, norb) ==
    CASE key \in {"kin", "na", "olp", "one_mo"} ->
            Array(<<nb, nb>>, [ix \in Idx(<<nb, nb>>) |->
                100 * position(pass_order, key) + 10 * ix[1] + ix[2] + 1])
      [] key = "er" ->
            Array(<<nb, nb, nb, nb>>, [ix \in Idx(<<nb, nb, nb, nb>>) |->
                10000 + 1000 * ix[1] + 100 * ix[2] + 10 * ix[3] + ix[4] + 1])
      [] key \in {"orb_alpha_coeffs", "orb_beta_coeffs"} ->
            Array(<<nb, norb>>, [ix \in Idx(<<nb, norb>>) |->
                100 * position(pass_order, key) + 10 * ix[1] + ix[2] + 1])
      [] OTHER ->
            Array(<<nb, nb>>, [ix \in Idx(<<nb, nb>>) |->
                100 * position(pass_order, key) + triangle(ix[1], ix[2])])

\* A merged mapping: a title, the atomic numbers, a two-index array outside
\* the registry, the basis-indexed keys and the control keys.
engine_mapping(nb, norb, keys, permutation, signs) ==
    LET controls == {k \in {"permutation", "signs"} :
                        (IF k = "permutation" THEN permutation ELSE signs) # Absent}
    IN  update(update(update(opaque_fields(30, {"title"}), geom_fields(30, {"numbers"}, 2)),
                      [k \in keys \cup {"one_mo"} |-> engine_value(k, nb, norb)]),
               [k \in controls |-> IF k = "permutation" THEN permutation ELSE signs])

InitEngine ==
    /\ op = "load_one"
    /\ filenames = <<>>
    /\ pc = "permutation"
    /\ idx = 1
    /\ \E nb \in 1..MaxNb, norb \in 1..MaxNorb, keys \in EngineKeySets :
         \E permutation \in PermChoices(nb), signs \in SignChoices(nb) :
            /\ (keys \cap {"orb_alpha_coeffs", "orb_beta_coeffs"} = {}) => norb = 1
            /\ result = engine_mapping(nb, norb, keys, permutation, signs)
    /\ merged = result
    /\ used = <<>>
    /\ opened = <<>>
    /\ raised = NoError
    /\ out = empty_dict
    /\ disk = "old"
    /\ handles = {}
    /\ ContainerIdle /\ ReaderIdle /\ UnitIdle

NextEngine ==
    \/ PermutationPass
    \/ SignsPass
    \/ Wrap

SpecEngine == InitEngine /\ [][NextEngine]_vars

-----------------------------------------------------------------------------
(* An IOData instance under any sequence of attribute accesses.            *)

\* no call of load_one or dump_one is under way
LoadIdle ==
    /\ op = "none"
    /\ filenames = <<>>
    /\ pc = "idle"
    /\ idx = 1
    /\ result = empty_dict
    /\ merged = empty_dict
    /\ used = <<>>
    /\ opened = <<>>
    /\ raised = NoError
    /\ out = empty_dict
    /\ disk = "old"
    /\ handles = {}

InitContainer == LoadIdle /\ ContainerIdle /\ ReaderIdle /\ UnitIdle

NextContainer ==
    \/ SetAttr
    \/ GetAttr
    \/ DelAttr

SpecContainer == InitContainer /\ [][NextContainer]_vars

-----------------------------------------------------------------------------
(* A LineIterator under any sequence of calls.                             *)

\* LineIterator(filename) on a file of up to MaxLines lines
InitReader ==
    /\ LoadIdle /\ ContainerIdle /\ UnitIdle
    /\ text \in UNION {[1..n -> Lines] : n \in 0..MaxLines}
    /\ fpos = 0
    /\ stack = <<>>
    /\ lineno = 0
    /\ consumed = <<>>
    /\ disciplined = TRUE
    /\ lit_ret = Call("init", "", "none", <<>>, 0)

NextReader ==
    \/ LitNext
    \/ LitBack
    \/ LitError

SpecReader == InitReader /\ [][NextReader]_vars

-----------------------------------------------------------------------------
(* A file is loaded, the container is dumped and the result loaded again.  *)

\* format_module.load(lit) and format_module.dump(f, data) of a codec
codec_load(codec, lines) ==
    CASE codec = "xyz" -> xyz_load_text(lines)
      [] codec = "car" -> car_load_text(lines)
      [] codec = "mdf" -> mdf_load_text(lines)
codec_dump(codec, data) ==
    CASE codec = "xyz" -> xyz_dump_text(data)
      [] codec = "car" -> car_dump_text(data)
      [] codec = "mdf" -> mdf_dump_text(data)

\* the atom lines of the XYZ files: a symbol, a symbol in lower case, an
\* atomic number, a number that is no atomic number; more digits than dump
\* prints, a digit that rounds up through the nines
XyzLines ==
    {<<"C", " ", "0", ".", "0", " ", "0", ".", "0", " ", "0", ".", "0">>,
     <<"h", " ", " ", "1", ".", "5", " ", "-", "0", ".", "1", "2", "3", "4", "5", "6",
          "7", "8", "9", "0", "1", " ", "1", "2", "3", "4", "5", ".", "5">>,
     <<"8", " ", "0", ".", "9", "9", "9", "9", "9", "9", "9", "9", "9", "9", "6", " ",
          "0", ".", "5", " ", ".", "2", "5">>,
     <<"-", "1", " ", "0", ".", "0", " ", "0", ".", "0", " ", "1", ".", "0">>}

\* the title lines
TitleLines == {<<" ", " ", "e", "t", "h", "a", "n", "e", " ">>, <<>>}

\* an XYZ file: the number of atoms, the title, the atoms
XyzFiles ==
    {<<nat_str(Len(atoms)), title>> \o atoms :
        atoms \in UNION {[1..n -> XyzLines] : n \in 0..MaxRtAtoms}, title \in TitleLines}

\* an atom line of a CAR file from the texts of its columns (car.py:65-73)
car_line(atname, x, y, z, restype, resnum, attype, element, charge) ==
    ljust(atname, 5) \o <<" ">> \o rjust(x, 14) \o <<" ">> \o rjust(y, 14) \o <<" ">>
    \o rjust(z, 14) \o <<" ">> \o ljust(restype, 4) \o <<" ">> \o ljust(resnum, 6) \o <<" ">>
    \o ljust(attype, 6) \o <<" ">> \o rjust(element, 2) \o <<" ">> \o charge

\* the atom lines of the CAR files: the first atom of ethane-oplsaa.car; a
\* residue type with blanks, a charge with four decimals and a coordinate
\* with ten; a symbol that sym2num does not have; a coordinate that fills
\* its fourteen columns
CarLines ==
    {car_line(<<"C", "1">>, <<"4", ".", "4", "6", "2", "9", "1", "0", "0", "0", "0">>, <<"5", ".", "1", "4", "8", "3", "3", "0", "0", "0", "0">>, <<"-", "5", ".", "0", "0", "0", "4", "1", "0", "0", "0", "0">>,
              <<"X", "X", "X", "X">>, <<"1">>, <<"C", "T">>, <<"C">>, <<" ", "-", "0", ".", "1", "8", "0">>),
     car_line(<<"H", "2">>, <<"1", ".", "5">>, <<"0", ".", "1", "2", "3", "4", "5", "6", "7", "8", "9", "1">>, <<"0", ".", "0">>,
              <<"A", "B">>, <<"1", "2">>, <<"H", "C">>, <<"H">>, <<"0", ".", "1", "2", "3", "4">>),
     car_line(<<"X", "3">>, <<"0", ".", "0">>, <<"0", ".", "0">>, <<"0", ".", "0">>,
              <<"X", "X", "X", "X">>, <<"1">>, <<"X">>, <<"X", "x">>, <<" ", " ", "0", ".", "0", "0", "0">>),
     car_line(<<"O", "4">>, <<"1", "2", "3", "4", "5", ".", "6", "7", "8", "9", "0", "1", "2", "3">>, <<"0", ".", "0">>, <<"0", ".", "0">>,
              <<"X", "X", "X", "X">>, <<"1">>, <<"O", "H">>, <<"O">>, <<" ", "-", "0", ".", "5", "0", "0">>)}

\* a CAR file: the two header lines, the title, the date, the atoms and
\* the two end lines
CarFiles ==
    {<<str_biosym_archive, str_pbc_off, title, str_date>> \o atoms \o <<str_end, str_end>> :
        atoms \in UNION {[1..n -> CarLines] : n \in 0..MaxRtAtoms}, title \in TitleLines}

\* an atom line of an MDF file from the texts of its columns
\* (mdf.py:105-122)
mdf_line(key, element, attype, charge, occupancy, bfactor, connections) ==
    ljust(key, 18) \o <<" ">> \o rjust(element, 2) \o <<" ">> \o rjust(attype, 3)
    \o str_mdf_fixed1 \o rjust(charge, 10) \o str_mdf_fixed2 \o rjust(occupancy, 6)
    \o <<" ">> \o rjust(bfactor, 7) \o <<" ">> \o connections

\* the atom lines of the MDF files: two bonded atoms with occupancy 1 and
\* B-factor 0; an atom with occupancy 0.5 and B-factor 1.25; a charge with
\* five decimals
MdfLines ==
    {mdf_line(<<"X", "X", "X", "X", "_", "1", ":", "C", "1">>, <<"C">>, <<"C", "T">>, <<"-", "0", ".", "1", "8", "0", "0">>, <<"1", ".", "0", "0", "0", "0">>, <<"0", ".", "0", "0", "0", "0">>,
              <<"H", "2">>),
     mdf_line(<<"X", "X", "X", "X", "_", "1", ":", "H", "2">>, <<"H">>, <<"H", "C">>, <<"0", ".", "0", "6", "0", "0">>, <<"1", ".", "0", "0", "0", "0">>, <<"0", ".", "0", "0", "0", "0">>,
              <<"C", "1">>),
     mdf_line(<<"X", "X", "X", "X", "_", "1", ":", "O", "3">>, <<"O">>, <<"O", "H">>, <<"-", "0", ".", "5", "0", "0", "0">>, <<"0", ".", "5", "0", "0", "0">>, <<"1", ".", "2", "5", "0", "0">>,
              <<>>),
     mdf_line(<<"A", "B", "_", "1", "2", ":", "N", "4">>, <<"N">>, <<"N", "T">>, <<"0", ".", "1", "2", "3", "4", "6">>, <<"1", ".", "0", "0", "0", "0">>, <<"0", ".", "0", "0", "0", "0">>,
              <<>>)}

\* an MDF file: MDF_HEADER, the molecule with its title, the atoms, the end
MdfFiles ==
    {MDF_HEADER \o <<str_at_molecule \o <<" ">> \o title, <<>>>> \o atoms
        \o <<<<>>, str_hash_end>> :
        atoms \in UNION {[1..n -> MdfLines] : n \in 0..MaxRtAtoms}, title \in TitleLines}

\* the files a codec is given
InputFiles(codec) ==
    CASE codec = "xyz" -> XyzFiles
      [] codec = "car" -> CarFiles
      [] codec = "mdf" -> MdfFiles

\* the round trips: the codec that loads the file, the codec that dumps
\* and loads again, and whether the caller sets `numbers` to the atnums of
\* the loaded mapping, which gives IOData.natom a value
RoundTrips ==
    {<<"xyz", "xyz", FALSE>>, <<"xyz", "car", FALSE>>, <<"xyz", "mdf", FALSE>>,
     <<"car", "car", FALSE>>, <<"car", "car", TRUE>>,
     <<"mdf", "mdf", FALSE>>, <<"mdf", "mdf", TRUE>>}

\* data = IOData(** format_module.load(lit)), and data.numbers = data.atnums
\* when the caller sets it.  The descriptors accept what xyz.load gives: an
\* int vector and a float matrix of three columns with as many rows.  An
\* atnums array with a None in it is no int array.
RtLoad ==
    /\ rt_pc = "start"
    /\ LET loaded(r) ==
               IF r.exc # "none"
               THEN /\ rt_pc' = "failed" /\ rt_exc' = r.exc
                    /\ UNCHANGED mol0
               ELSE IF rt_codec[3]
                       /\ \E i \in 1..Len(r.fields["atnums"]) : r.fields["atnums"][i] = 0
               THEN /\ rt_pc' = "failed" /\ rt_exc' = "TypeError"
                    /\ UNCHANGED mol0
               ELSE /\ rt_pc' = "loaded"
                    /\ mol0' = IF rt_codec[3]
                               THEN update(r.fields, [k \in {"numbers"} |-> r.fields["atnums"]])
                               ELSE r.fields
                    /\ UNCHANGED rt_exc
       IN  loaded(codec_load(rt_codec[1], rt_file))
    /\ UNCHANGED <<rt_codec, rt_file, rt_out, mol1>>
    /\ UNCHANGED <<load_vars, container_vars, reader_vars, shells_vars, wfn_vars, tensor_vars>>

\* format_module.dump(f, data)
RtDump ==
    /\ rt_pc = "loaded"
    /\ LET dumped(r) ==
               /\ rt_out' = r.lines
               /\ rt_exc' = r.exc
               /\ rt_pc' = IF r.exc = "none" THEN "dumped" ELSE "failed"
       IN  dumped(codec_dump(rt_codec[2], mol0))
    /\ UNCHANGED <<rt_codec, rt_file, mol0, mol1>>
    /\ UNCHANGED <<load_vars, container_vars, reader_vars, shells_vars, wfn_vars, tensor_vars>>

\* IOData(** format_module.load(lit)) of the file that dump wrote
RtReload ==
    /\ rt_pc = "dumped"
    /\ LET loaded(r) ==
               IF r.exc # "none"
               THEN /\ rt_pc' = "failed" /\ rt_exc' = r.exc
                    /\ UNCHANGED mol1
               ELSE /\ rt_pc' = "reloaded"
                    /\ mol1' = r.fields
                    /\ UNCHANGED rt_exc
       IN  loaded(codec_load(rt_codec[2], rt_out))
    /\ UNCHANGED <<rt_codec, rt_file, mol0, rt_out>>
    /\ UNCHANGED <<load_vars, container_vars, reader_vars, shells_vars, wfn_vars, tensor_vars>>

InitRoundTrip ==
    /\ LoadIdle /\ ContainerIdle /\ ReaderIdle
    /\ ShellsIdle /\ WfnIdle /\ TensorIdle
    /\ rt_pc = "start"
    /\ rt_codec \in RoundTrips
    /\ rt_file \in InputFiles(rt_codec[1])
    /\ mol0 = empty_dict
    /\ rt_out = <<>>
    /\ mol1 = empty_dict
    /\ rt_exc = "none"

NextRoundTrip ==
    \/ RtLoad
    \/ RtDump
    \/ RtReload

SpecRoundTrip == InitRoundTrip /\ [][NextRoundTrip]_vars

-----------------------------------------------------------------------------
(* fchk.load from the shell types of the file to the permutation.          *)

\* the shell types of the files: the keys of permutation_rules, -1 for an
\* SP shell, and one type on either side that permutation_rules has not
RawShellTypes == -10..10

\* the loop that makes my_shell_types: an SP shell becomes an S shell and a
\* P shell
RECURSIVE my_shell_types(_)
my_shell_types(shell_types) ==
    IF shell_types = <<>> THEN <<>>
    ELSE (IF Head(shell_types) = -1 THEN <<0, 1>> ELSE <<Head(shell_types)>>)
         \o my_shell_types(Tail(shell_types))

\* the keys of the dict permutation_rules
permutation_rules_keys == (-9..-2) \cup (0..9)

ShellsSplit ==
    /\ fp_pc = "start"
    /\ fp_shells' = my_shell_types(fp_shells)
    /\ fp_pc' = "split"
    /\ UNCHANGED fp_perm
    /\ UNCHANGED <<load_vars, container_vars, reader_vars, roundtrip_vars, wfn_vars, tensor_vars>>

\* the loop over my_shell_types; permutation_rules[shell_type] of a type
\* that is no key raises KeyError
ShellsPermute ==
    /\ fp_pc = "split"
    /\ IF \A k \in 1..Len(fp_shells) : fp_shells[k] \in permutation_rules_keys
       THEN /\ fp_perm' = fchk_permutation(fp_shells, <<>>)
            /\ fp_pc' = "done"
       ELSE /\ fp_pc' = "KeyError"
            /\ UNCHANGED fp_perm
    /\ UNCHANGED fp_shells
    /\ UNCHANGED <<load_vars, container_vars, reader_vars, roundtrip_vars, wfn_vars, tensor_vars>>

InitShells ==
    /\ LoadIdle /\ ContainerIdle /\ ReaderIdle
    /\ RoundTripIdle /\ WfnIdle /\ TensorIdle
    /\ fp_shells \in UNION {[1..n -> RawShellTypes] : n \in 1..MaxShells}
    /\ fp_perm = <<>>
    /\ fp_pc = "start"

NextShells ==
    \/ ShellsSplit
    \/ ShellsPermute

SpecShells == InitShells /\ [][NextShells]_vars

-----------------------------------------------------------------------------
(* wfn.get_permutation_orbital on the type assignments of a file.          *)

\* the type assignments of the components of a Cartesian shell in the order
\* of a WFN file, from s to h
wfn_components ==
    <<<<1>>,
      <<2, 3, 4>>,
      <<5, 6, 7, 8, 9, 10>>,
      <<11, 12, 13, 17, 14, 15, 18, 19, 16, 20>>,
      <<23, 29, 32, 27, 22, 28, 35, 34, 26, 31, 33, 30, 25, 24, 21>>,
      [k \in 1..21 |-> 35 + k]>>

\* count primitives of one shell type, grouped component by component:
\* count times the first component, count times the second, ...; with
\* count = 1 the components of one shell, listed consecutively
wfn_group(components, count) ==
    [k \in 1..(Len(components) * count) |-> components[((k - 1) \div count) + 1]]

WfnGroups == {wfn_group(wfn_components[l], count) : l \in 1..6, count \in 1..MaxGroup}

RECURSIVE concatenation(_)
concatenation(seqs) == IF seqs = <<>> THEN <<>> ELSE Head(seqs) \o concatenation(Tail(seqs))

\* the type assignments of the files: up to MaxShells groups
WfnTypeAssignments ==
    {concatenation(groups) : groups \in UNION {[1..n -> WfnGroups] : n \in 1..MaxShells}}

\* degeneracy of {s:1, p:3, d:6, f:10, g:15, h:21}
degeneracy == (1 :> 1) @@ (2 :> 3) @@ (5 :> 6) @@ (11 :> 10) @@ (23 :> 15) @@ (36 :> 21)

\* the run of type_assignment[index + sub_count] == value: sub_count when
\* the inner while loop ends
sub_count_of(type_assignment, index, value) ==
    CHOOSE c \in 1..(Len(type_assignment) - index) :
        /\ \A k \in 1..c : type_assignment[index + k] = value
        /\ index + c = Len(type_assignment) \/ type_assignment[index + c + 1] # value

\* the pass that reads type_assignment[index + 1] whatever the value is
orbital_step_reads_ahead(type_assignment, index, permutation) ==
    LET value == type_assignment[index + 1]
        num_primitive == Len(type_assignment)
        raise(exc) == [exc |-> exc, index |-> index, permutation |-> permutation]
        grouped(length, sub_count) ==
            IF index + sub_count * length > num_primitive THEN raise("ValueError")
            ELSE [exc |-> "none", index |-> index + sub_count * length,
                  permutation |->
                      [p \in 1..num_primitive |->
                          IF p - 1 >= index /\ p - 1 < index + sub_count * length
                          THEN permutation[index + ((p - 1 - index) \div length) + 1]
                               + ((p - 1 - index) % length) * sub_count
                          ELSE permutation[p]]]
    IN  IF value \notin DOMAIN degeneracy THEN raise("KeyError")
        ELSE IF index + 1 >= num_primitive THEN raise("IndexError")
        ELSE IF value # 1 /\ value = type_assignment[index + 2]
             THEN grouped(degeneracy[value], sub_count_of(type_assignment, index, value))
        ELSE [exc |-> "none", index |-> index + degeneracy[value], permutation |-> permutation]

\* one pass of the body of the outer while loop, with index < num_primitive;
\* index counts from 0 as in the source.  An assignment to a slice that
\* ends before its right side does raises ValueError.
orbital_step(type_assignment, index, permutation) ==
    LET value == type_assignment[index + 1]
        num_primitive == Len(type_assignment)
        raise(exc) == [exc |-> exc, index |-> index, permutation |-> permutation]
        grouped(length, sub_count) ==
            IF index + sub_count * length > num_primitive THEN raise("ValueError")
            ELSE [exc |-> "none", index |-> index + sub_count * length,
                  permutation |->
                      [p \in 1..num_primitive |->
                          IF p - 1 >= index /\ p - 1 < index + sub_count * length
                          THEN permutation[index + ((p - 1 - index) \div length) + 1]
                               + ((p - 1 - index) % length) * sub_count
                          ELSE permutation[p]]]
    IN  IF value \notin DOMAIN degeneracy THEN raise("KeyError")
        ELSE IF value # 1 /\ index + 1 >= num_primitive THEN raise("IndexError")
        ELSE IF value # 1 /\ value = type_assignment[index + 2]
             THEN grouped(degeneracy[value], sub_count_of(type_assignment, index, value))
        ELSE [exc |-> "none", index |-> index + degeneracy[value], permutation |-> permutation]

\* permutation = np.arange(num_primitive); index = 0
WfnCall ==
    /\ wfn_pc = "start"
    /\ wfn_perm' = arange(Len(wfn_types))
    /\ wfn_index' = 0
    /\ wfn_pc' = "loop"
    /\ UNCHANGED <<wfn_types, wfn_iter>>
    /\ UNCHANGED <<load_vars, container_vars, reader_vars, roundtrip_vars, shells_vars,
                   tensor_vars>>

\* while index < num_primitive: one pass
WfnIterate ==
    /\ wfn_pc = "loop"
    /\ wfn_index < Len(wfn_types)
    /\ LET stepped(r) ==
               /\ wfn_index' = r.index
               /\ wfn_perm' = r.permutation
               /\ wfn_pc' = IF r.exc = "none" THEN "loop" ELSE r.exc
       IN  stepped(orbital_step(wfn_types, wfn_index, wfn_perm))
    /\ wfn_iter' = wfn_iter + 1
    /\ UNCHANGED wfn_types
    /\ UNCHANGED <<load_vars, container_vars, reader_vars, roundtrip_vars, shells_vars,
                   tensor_vars>>

\* assert (np.sort(permutation) == np.arange(num_primitive)).all()
\* return permutation
WfnReturn ==
    /\ wfn_pc = "loop"
    /\ wfn_index >= Len(wfn_types)
    /\ wfn_pc' = IF {wfn_perm[p] : p \in 1..Len(wfn_perm)} = 0..(Len(wfn_types) - 1)
                 THEN "done" ELSE "AssertionError"
    /\ UNCHANGED <<wfn_types, wfn_index, wfn_perm, wfn_iter>>
    /\ UNCHANGED <<load_vars, container_vars, reader_vars, roundtrip_vars, shells_vars,
                   tensor_vars>>

InitWfn ==
    /\ LoadIdle /\ ContainerIdle /\ ReaderIdle
    /\ RoundTripIdle /\ ShellsIdle /\ TensorIdle
    /\ wfn_types \in WfnTypeAssignments
    /\ wfn_index = 0
    /\ wfn_perm = <<>>
    /\ wfn_pc = "start"
    /\ wfn_iter = 0

NextWfn ==
    \/ WfnCall
    \/ WfnIterate
    \/ WfnReturn

SpecWfn == InitWfn /\ [][NextWfn]_vars

-----------------------------------------------------------------------------
(* utils.set_four_index_element on a four-index object.                    *)

\* the positions of a four-index object of shape (nbasis, nbasis, nbasis, nbasis)
four_index_positions(nbasis) ==
    (0..(nbasis - 1)) \X (0..(nbasis - 1)) \X (0..(nbasis - 1)) \X (0..(nbasis - 1))

\* the values of the matrix elements that are stored
TensorValues == {1, 2}

\* the assignments without the one to [j, k, l, i]
set_four_index_element_seven(four_index_object, i, j, k, l, value) ==
    [four_index_object EXCEPT ![<<i, j, k, l>>] = value,
                              ![<<j, i, l, k>>] = value,
                              ![<<k, j, i, l>>] = value,
                              ![<<i, l, k, j>>] = value,
                              ![<<k, l, i, j>>] = value,
                              ![<<l, k, j, i>>] = value,
                              ![<<l, i, j, k>>] = value]

\* the eight assignments, in the order of the source
set_four_index_element(four_index_object, i, j, k, l, value) ==
    [four_index_object EXCEPT ![<<i, j, k, l>>] = value,
                              ![<<j, i, l, k>>] = value,
                              ![<<k, j, i, l>>] = value,
                              ![<<i, l, k, j>>] = value,
                              ![<<k, l, i, j>>] = value,
                              ![<<l, k, j, i>>] = value,
                              ![<<j, k, l, i>>] = value,
                              ![<<l, i, j, k>>] = value]

\* one call of set_four_index_element(two_mo, i, j, k, l, value)
TensorSet ==
    /\ two_mo_calls < MaxCalls
    /\ \E at \in DOMAIN two_mo, value \in TensorValues :
           /\ two_mo' = set_four_index_element(two_mo, at[1], at[2], at[3], at[4], value)
           /\ two_mo_set' = <<at[1], at[2], at[3], at[4], value>>
    /\ two_mo_calls' = two_mo_calls + 1
    /\ UNCHANGED <<load_vars, container_vars, reader_vars, roundtrip_vars, shells_vars,
                   wfn_vars>>

\* the four-index object starts as np.zeros((nbasis, nbasis, nbasis, nbasis))
InitTensor ==
    /\ LoadIdle /\ ContainerIdle /\ ReaderIdle
    /\ RoundTripIdle /\ ShellsIdle /\ WfnIdle
    /\ \E nbasis \in 1..MaxBasis : two_mo = [at \in four_index_positions(nbasis) |-> 0]
    /\ two_mo_set = <<>>
    /\ two_mo_calls = 0

NextTensor == TensorSet

SpecTensor == InitTensor /\ [][NextTensor]_vars

-----------------------------------------------------------------------------
(* Properties of the reordering engine (checked under SpecEngine).         *)

\* the two-index registry, as the specification lists it
RegistryFields ==
    {"dm_full", "dm_full_mp2", "dm_full_mp3", "dm_full_cc", "dm_full_ci", "dm_full_scf",
     "dm_spin", "dm_spin_mp2", "dm_spin_mp3", "dm_spin_cc", "dm_spin_ci", "dm_spin_scf",
     "kin", "na", "olp"}

CoeffFields == {"orb_alpha_coeffs", "orb_beta_coeffs"}

\* the mapping holds a rank-1 array of length n under the key
HoldsVector(d, key, n) ==
    key \in DOMAIN d /\ d[key].t = "array" /\ d[key].shape = <<n>>

\* the mapping holds no correction under the key: no key, or None
HoldsNothing(d, key) == get(d, key) = None

\* the merged mapping holds both corrections for a basis of n functions
HoldsBoth(n) == HoldsVector(merged, "permutation", n) /\ HoldsVector(merged, "signs", n)

\* entry a of the permutation and of the signs of the merged mapping
MergedP(a) == merged["permutation"].a[<<a>>]
MergedS(a) == merged["signs"].a[<<a>>]

\* the inverse of the merged permutation
MergedInvP(n, a) == CHOOSE b \in 0..(n - 1) : MergedP(b) = a

\* the basis size of the merged mapping's tensor under key
BasisSize(key) == merged[key].shape[1]

\* C1: when the merged mapping holds permutation P and signs S of size Nb,
\* every present two-index registry field ends as
\* M'[a,b] = S[a]*S[b]*M[P[a],P[b]] and er ends as
\* E'[a,b,c,d] = S[a]*S[b]*S[c]*S[d]*E[P[a],P[b],P[c],P[d]].
C1_PermutationThenSigns ==
    pc = "done" =>
        /\ \A key \in RegistryFields \cap DOMAIN merged :
             HoldsBoth(BasisSize(key)) =>
                /\ key \in DOMAIN out
                /\ out[key].shape = merged[key].shape
                /\ \A a, b \in 0..(BasisSize(key) - 1) :
                     out[key].a[<<a, b>>] =
                        MergedS(a) * MergedS(b) * merged[key].a[<<MergedP(a), MergedP(b)>>]
        /\ ("er" \in DOMAIN merged /\ HoldsBoth(BasisSize("er"))) =>
                /\ "er" \in DOMAIN out
                /\ out["er"].shape = merged["er"].shape
                /\ \A a, b, c, d \in 0..(BasisSize("er") - 1) :
                     out["er"].a[<<a, b, c, d>>] =
                        MergedS(a) * MergedS(b) * MergedS(c) * MergedS(d)
                        * merged["er"].a[<<MergedP(a), MergedP(b), MergedP(c), MergedP(d)>>]

\* a call returned whose mapping held a two-index field outside the density
\* matrices, the four-index field, a permutation that moves an index and
\* signs of both kinds, and both fields changed
C1_Witness ==
    /\ pc = "done"
    /\ {"kin", "dm_full_scf", "er"} \subseteq DOMAIN merged
    /\ HoldsBoth(3)
    /\ MergedP(0) # 0
    /\ MergedS(0) = -1 /\ MergedS(1) = 1
    /\ out["kin"] # merged["kin"]
    /\ out["er"] # merged["er"]

\* C2: the reordering touches the row axis of the orbital coefficients only:
\* C'[a,m] = S[a]*C[P[a],m], with P the identity when the mapping holds no
\* permutation and S all ones when it holds no signs.
C2_CoefficientRowsOnly ==
    pc = "done" =>
        \A key \in CoeffFields \cap DOMAIN merged :
            LET n == BasisSize(key)
                P(a) == IF HoldsNothing(merged, "permutation") THEN a ELSE MergedP(a)
                S(a) == IF HoldsNothing(merged, "signs") THEN 1 ELSE MergedS(a)
            IN  /\ key \in DOMAIN out
                /\ out[key].shape = merged[key].shape
                /\ \A a \in 0..(n - 1), m \in 0..(merged[key].shape[2] - 1) :
                     out[key].a[<<a, m>>] = S(a) * merged[key].a[<<P(a), m>>]

\* a call returned whose mapping held both coefficient arrays with more rows
\* than columns, a permutation that moves a row and signs of both kinds
C2_Witness ==
    /\ pc = "done"
    /\ CoeffFields \subseteq DOMAIN merged
    /\ HoldsBoth(3)
    /\ merged["orb_beta_coeffs"].shape = <<3, 2>>
    /\ MergedP(0) = 2
    /\ MergedS(0) = -1 /\ MergedS(2) = 1
    /\ out["orb_beta_coeffs"] # merged["orb_beta_coeffs"]

\* C3: the returned container never has a permutation or a signs attribute,
\* also when a codec emitted the key with an empty or None value.
C3_NoControlAttributes ==
    pc = "done" => ("permutation" \notin DOMAIN out /\ "signs" \notin DOMAIN out)

\* C4: when the merged mapping has neither control key the reordering is a
\* no-op: nothing is raised, no key is added or removed and the container
\* holds, key for key and element for element, what the codecs produced.
C4_NoControlsNoChange ==
    ("permutation" \notin DOMAIN merged /\ "signs" \notin DOMAIN merged) =>
        /\ raised = NoError
        /\ pc \in {"permutation", "signs", "wrap"} => result = merged
        /\ pc = "done" => out = merged

\* a call returned on a mapping without control keys that held every kind
\* of basis-indexed field
C4_Witness ==
    /\ pc = "done"
    /\ "permutation" \notin DOMAIN merged /\ "signs" \notin DOMAIN merged
    /\ {"dm_full_scf", "kin", "er", "orb_alpha_coeffs", "orb_beta_coeffs"} \subseteq DOMAIN merged
    /\ BasisSize("er") = 3
    /\ out = merged

IsSymmetric(M) == \A ix \in DOMAIN M.a : M.a[ix] = M.a[<<ix[2], ix[1]>>]

\* C5, as stated: M'[inv(P)][:, inv(P)] * outer(S, S) recovers a symmetric M
\* exactly, and the four-index tensor satisfies the 4-way analogue.
C5_InverseCheckAsStated ==
    pc = "done" =>
        /\ \A key \in RegistryFields \cap DOMAIN merged :
             (HoldsBoth(BasisSize(key)) /\ IsSymmetric(merged[key])) =>
                \A a, b \in 0..(BasisSize(key) - 1) :
                    out[key].a[<<MergedInvP(BasisSize(key), a), MergedInvP(BasisSize(key), b)>>]
                    * MergedS(a) * MergedS(b) = merged[key].a[<<a, b>>]
        /\ ("er" \in DOMAIN merged /\ HoldsBoth(BasisSize("er"))) =>
                LET inv(a) == MergedInvP(BasisSize("er"), a)
                IN  \A a, b, c, d \in 0..(BasisSize("er") - 1) :
                        out["er"].a[<<inv(a), inv(b), inv(c), inv(d)>>]
                        * MergedS(a) * MergedS(b) * MergedS(c) * MergedS(d)
                        = merged["er"].a[<<a, b, c, d>>]

\* C5, amended: the sign mask is applied before the inverse permutation,
\* (M' * outer(S, S))[inv(P)][:, inv(P)] recovers M exactly, for every
\* two-index field of the registry and, 4-way, for er.
C5_InverseCheckSignsFirst ==
    pc = "done" =>
        /\ \A key \in RegistryFields \cap DOMAIN merged :
             HoldsBoth(BasisSize(key)) =>
                LET inv(a) == MergedInvP(BasisSize(key), a)
                IN  \A a, b \in 0..(BasisSize(key) - 1) :
                        out[key].a[<<inv(a), inv(b)>>] * MergedS(inv(a)) * MergedS(inv(b))
                        = merged[key].a[<<a, b>>]
        /\ ("er" \in DOMAIN merged /\ HoldsBoth(BasisSize("er"))) =>
                LET inv(a) == MergedInvP(BasisSize("er"), a)
                IN  \A a, b, c, d \in 0..(BasisSize("er") - 1) :
                        out["er"].a[<<inv(a), inv(b), inv(c), inv(d)>>]
                        * MergedS(inv(a)) * MergedS(inv(b)) * MergedS(inv(c)) * MergedS(inv(d))
                        = merged["er"].a[<<a, b, c, d>>]

\* a call returned on a symmetric density matrix and a four-index tensor
\* with signs that the permutation does not map onto themselves
C5_Witness ==
    /\ pc = "done"
    /\ {"dm_full_scf", "er"} \subseteq DOMAIN merged
    /\ HoldsBoth(3)
    /\ IsSymmetric(merged["dm_full_scf"])
    /\ MergedP(0) = 1 /\ MergedS(0) = 1 /\ MergedS(1) = -1
    /\ out["dm_full_scf"] # merged["dm_full_scf"]

SignsInvariant(n) == \A a \in 0..(n - 1) : MergedS(MergedP(a)) = MergedS(a)

-----------------------------------------------------------------------------
(* Properties of load_one and dump_one as called (checked under Spec).     *)

\* the permutation and the signs a mapping holds for a basis of n functions:
\* the identity and all ones when it holds none
PermOf(ctl, n) ==
    [a \in 0..(n - 1) |-> IF "permutation" \in DOMAIN ctl THEN ctl["permutation"].a[<<a>>] ELSE a]
SignsOf(ctl, n) ==
    [a \in 0..(n - 1) |-> IF "signs" \in DOMAIN ctl THEN ctl["signs"].a[<<a>>] ELSE 1]

\* a value after one application of the corrections held by ctl: the index
\* formulas for the registry fields, er and the coefficients, every other
\* value as it is
Corrected(raw, key, ctl) ==
    IF key \in RegistryFields
    THEN LET P == PermOf(ctl, raw.shape[1])
             S == SignsOf(ctl, raw.shape[1])
         IN  [raw EXCEPT !.a = [ix \in DOMAIN raw.a |->
                 S[ix[1]] * S[ix[2]] * raw.a[<<P[ix[1]], P[ix[2]]>>]]]
    ELSE IF key = "er"
    THEN LET P == PermOf(ctl, raw.shape[1])
             S == SignsOf(ctl, raw.shape[1])
         IN  [raw EXCEPT !.a = [ix \in DOMAIN raw.a |->
                 S[ix[1]] * S[ix[2]] * S[ix[3]] * S[ix[4]]
                 * raw.a[<<P[ix[1]], P[ix[2]], P[ix[3]], P[ix[4]]>>]]]
    ELSE IF key \in CoeffFields
    THEN LET P == PermOf(ctl, raw.shape[1])
             S == SignsOf(ctl, raw.shape[1])
         IN  [raw EXCEPT !.a = [ix \in DOMAIN raw.a |-> S[ix[1]] * raw.a[<<P[ix[1]], ix[2]>>]]]
    ELSE raw

ControlKeys == {"permutation", "signs"}

\* a returned load_one call on two files
TwoFilesLoaded == op = "load_one" /\ pc = "done" /\ Len(filenames) = 2

\* C7, as stated: load_one(A, B) yields, for every key of both files'
\* mappings, the value load_one(B) alone produces and, for every key of A's
\* mapping only, A's value (as the codec returned it or as load_one(A) alone
\* returns it).  Stated for calls on the codecs of iodata/formats.
C7_MergeOverrideLaw ==
    (TwoFilesLoaded /\ \A i \in 1..2 : used[i] # "molden") =>
        LET A == Supplied(1)
            B == Supplied(2)
        IN  \A key \in (DOMAIN A \cup DOMAIN B) \ ControlKeys :
                /\ key \in DOMAIN out
                /\ key \in DOMAIN B => out[key] = Corrected(B[key], key, B)
                /\ key \notin DOMAIN B =>
                      (out[key] = A[key] \/ out[key] = Corrected(A[key], key, A))

\* C7, amended: the override law holds for the merged mapping, before the
\* reordering: it has the keys of both mappings, B's value for every key of
\* B and A's value for every key of A only.  The container has the merged
\* value under every key that is neither a control key nor a basis-indexed
\* tensor; a basis-indexed tensor is the merged value corrected with the
\* merged mapping's permutation and signs, whichever file emitted them.
C7_MergeOverrideBeforeReordering ==
    TwoFilesLoaded =>
        LET A == Supplied(1)
            B == Supplied(2)
        IN  /\ DOMAIN merged = DOMAIN A \cup DOMAIN B
            /\ \A key \in DOMAIN merged :
                  merged[key] = IF key \in DOMAIN B THEN B[key] ELSE A[key]
            /\ DOMAIN out = DOMAIN merged \ ControlKeys
            /\ \A key \in DOMAIN out : out[key] = Corrected(merged[key], key, merged)

\* load_one(d/b.fchk, a.fchk) returned: the CC density is in the first
\* file only, the permutation of the second file reordered it, and the
\* title is the second file's
C7_Witness ==
    /\ TwoFilesLoaded
    /\ \A i \in 1..2 : used[i] = "fchk"
    /\ "dm_full_cc" \in DOMAIN Supplied(1) \ DOMAIN Supplied(2)
    /\ out["dm_full_cc"] # Supplied(1)["dm_full_cc"]
    /\ out["dm_full_cc"] # Corrected(Supplied(1)["dm_full_cc"], "dm_full_cc", Supplied(1))
    /\ out["title"] = Supplied(2)["title"]
    /\ out["title"] # Supplied(1)["title"]

\* the control values a call uses: for each control key the value of the
\* last file that emits it
ControlsUsed ==
    [k \in {c \in ControlKeys : LastWith(c) # 0} |-> Supplied(LastWith(k))[k]]

\* C8: when a file of the call emits a control key, every eligible tensor
\* of the returned container is the value of the last file supplying it
\* corrected exactly once, with the permutation and the signs of the last
\* file emitting each, wherever the supplying file stands in the list.
C8_CorrectedOnceByLastEmitter ==
    (op = "load_one" /\ pc = "done" /\ DOMAIN ControlsUsed # {}) =>
        \A key \in RegistryFields \cup CoeffFields \cup {"er"} :
            LastWith(key) # 0 =>
                /\ key \in DOMAIN out
                /\ out[key] = Corrected(Supplied(LastWith(key))[key], key, ControlsUsed)

\* a call on two files that emit different permutations returned; the first
\* file alone supplies a density matrix, both supply coefficients, and the
\* second file's permutation reordered both
C8_Witness ==
    /\ TwoFilesLoaded
    /\ LastWith("permutation") = 2
    /\ "permutation" \in DOMAIN Supplied(1)
    /\ Supplied(1)["permutation"] # Supplied(2)["permutation"]
    /\ LastWith("dm_full_cc") = 1
    /\ LastWith("orb_alpha_coeffs") = 2
    /\ out["dm_full_cc"] # Supplied(1)["dm_full_cc"]
    /\ out["orb_alpha_coeffs"] # Supplied(2)["orb_alpha_coeffs"]

\* no module of the registry has a pattern matching the name
Unclaimed(name) ==
    \A m \in 1..Len(format_modules) : \A k \in 1..Len(format_modules[m].patterns) :
        ~fnmatch(name, format_modules[m].patterns[k])

\* the part of a path after its last "/"
BaseNameOf(p) ==
    LET starts == {k \in 1..(Len(p) + 1) : \A j \in k..Len(p) : p[j] # "/"}
    IN  SubSeq(p, CHOOSE k \in starts : \A j \in starts : k <= j, Len(p))

\* C9: a load_one call whose argument list holds a filename no codec claims
\* opens no input file, neither that one nor any before it, and the only
\* way it ends is the unknown-format error.
C9_UnknownFormatOpensNothing ==
    (op = "load_one" /\ \E i \in 1..Len(filenames) : Unclaimed(BaseNameOf(filenames[i].path))) =>
        /\ opened = <<>>
        /\ pc # "done"
        /\ pc = "raised" => raised = Error("ValueError", "Unknown file format for reading")

\* C10: in load_one and dump_one the module used for a path is the first of
\* format_modules with a pattern matching the path's base name; an
\* unknown-format error means no module has one; a call that returns used
\* one module per filename.
C10_FirstMatchOnBaseName ==
    /\ \A i \in 1..Len(used) :
         LET base == BaseNameOf(filenames[i].path)
         IN  \E m \in 1..Len(format_modules) :
                /\ format_modules[m].name = used[i]
                /\ \E k \in 1..Len(format_modules[m].patterns) :
                      fnmatch(base, format_modules[m].patterns[k])
                /\ \A j \in 1..(m - 1) : \A k \in 1..Len(format_modules[j].patterns) :
                      ~fnmatch(base, format_modules[j].patterns[k])
    /\ raised \in {Error("ValueError", "Unknown file format for reading"),
                   Error("ValueError", "Unknown file format for writing")} =>
         Unclaimed(BaseNameOf(filenames[Len(used) + 1].path))
    /\ pc = "done" => Len(used) = Len(filenames)

\* load_one(LOCPOT/c.xyz, LOCPOT.xyz) returned: the directory name did not
\* make the first file a VASP file, and the second, whose base name matches
\* patterns of two modules, went to the one registered first
C10_Witness ==
    /\ op = "load_one" /\ pc = "done"
    /\ filenames = <<file_c_xyz, file_locpot_xyz>>
    /\ used = <<"xyz", "locpot">>


-----------------------------------------------------------------------------
(* Error handling of load_one and dump_one (checked under Spec).           *)

\* the text of the file ends before the data the codec reads is complete
Truncated(body) == body.defect \in {"empty", "cut_array", "cut_density"}

\* the text of the file is complete and a part of it is not what the codec
\* expects
Malformed(body) == body.defect \in {"bad_header", "bad_number", "short_line"}

TruncatedMessage == "File ended before all data was read."

\* C11: load_one on a claimed file whose text ends early fails with the
\* truncated-file error: once the call has read such a file it has raised,
\* and what it raised is the reader's error with the truncation message.
C11_TruncatedInputFails ==
    op = "load_one" =>
        \A i \in 1..Len(used) :
            Truncated(filenames[i].body) =>
                /\ pc = "raised"
                /\ raised.type = "IOError"
                /\ raised.msg = TruncatedMessage

\* C12: the error load_one raises for truncated input has a type that none
\* of the errors it raises for malformed input has.
C12_TruncatedErrorTypeDistinct ==
    (op = "load_one" /\ pc = "raised" /\ Len(used) = idx
        /\ Truncated(filenames[idx].body) /\ raised.msg = TruncatedMessage) =>
        \A f \in Files :
            (select_module(f.path) # 0 /\ Malformed(f.body)) =>
                load_raised(f).type # raised.type

\* C13: load_one on a claimed file with malformed text fails with the
\* reader's diagnostic error, which carries the file name and the line
\* number, and with no error of another class.
C13_MalformedInputDiagnostic ==
    op = "load_one" =>
        \A i \in 1..Len(used) :
            Malformed(filenames[i].body) =>
                /\ pc = "raised"
                /\ raised.type = "IOError"
                /\ raised.where = <<filenames[i].path, filenames[i].body.lineno>>

\* C14: dump_one on a filename whose base name no module with a dump
\* function claims fails with the unknown-format error.
C14_DumpMatchesDumpCapableOnly ==
    (op = "dump_one" /\ pc # "dump"
        /\ \A m \in 1..Len(format_modules) :
              claims_name(format_modules[m], BaseNameOf(filenames[1].path))
                  => ~format_modules[m].dump) =>
        /\ pc = "raised"
        /\ raised = Error("ValueError", "Unknown file format for writing")

\* C15: a dump_one call that fails leaves the target file as it was.
C15_FailedDumpLeavesFile ==
    (op = "dump_one" /\ pc = "raised") => disk = "old"


-----------------------------------------------------------------------------
(* Properties of the IOData attributes (checked under SpecContainer).      *)

\* the array has the number of dimensions and of columns the attribute takes
WellShaped(name, x) ==
    IF name = "coordinates" THEN Len(x.shape) = 2 /\ x.shape[2] = 3 ELSE Len(x.shape) = 1

\* C16: any two of numbers, coordinates and pseudo_numbers that are set
\* have the same first dimension; an assignment of an array whose first
\* dimension differs from that of another attribute that is set raises
\* TypeError, and an assignment of a well-shaped array that agrees with all
\* of them goes through.
C16_ShapeInvariant ==
    /\ \A k1, k2 \in DOMAIN attrs : attrs[k1].shape[1] = attrs[k2].shape[1]
    /\ ret.call = "set" =>
          LET others == DOMAIN attrs \ {ret.name}
              agrees == \A k \in others : attrs[k].shape[1] = ret.arg.shape[1]
          IN  /\ ~agrees => ret.exc = "TypeError"
              /\ (agrees /\ WellShaped(ret.name, ret.arg)) =>
                    /\ ret.exc = "none"
                    /\ ret.name \in DOMAIN attrs
                    /\ attrs[ret.name].shape = ret.arg.shape

\* coordinates of shape (4, 3) were assigned to a container whose numbers
\* have length 3, and the assignment raised
C16_Witness ==
    /\ ret.call = "set" /\ ret.name = "coordinates"
    /\ ret.arg.shape = <<4, 3>>
    /\ "numbers" \in DOMAIN attrs /\ attrs["numbers"].shape = <<3>>
    /\ "coordinates" \notin DOMAIN attrs
    /\ ret.exc = "TypeError"

\* C17: a read of pseudo_numbers, when pseudo_numbers is not assigned and
\* numbers is set, returns the numbers of that moment as floats.
C17_DefaultFollowsNumbers ==
    (ret.call = "get" /\ ret.name = "pseudo_numbers"
        /\ "pseudo_numbers" \notin assigned /\ "numbers" \in DOMAIN attrs) =>
        /\ ret.exc = "none"
        /\ ret.value.dtype = "float"
        /\ ret.value.shape = attrs["numbers"].shape
        /\ \A ix \in DOMAIN ret.value.a : ret.value.a[ix] = 2 * attrs["numbers"].a[ix]

-----------------------------------------------------------------------------
(* Properties of the line reader.                                          *)

\* C18 (under Spec): when load_one has returned or raised, every file it
\* opened is closed.
C18_FilesClosedOnExit ==
    (op = "load_one" /\ pc \in {"done", "raised"}) => handles = {}

\* C19 (under SpecReader): as long as every back() returned the line pulled
\* last and not yet pushed back, the lines pulled and not pushed back are
\* the first lineno lines of the file, so that the next pull gives the
\* earliest line not consumed; a pull returns the line at file position
\* lineno; a pull at the end of the file raises StopIteration and leaves
\* lineno as it was; error() reports the file name and lineno.
C19_CursorProperty ==
    disciplined =>
        /\ lineno = Len(consumed)
        /\ consumed = SubSeq(text, 1, lineno)
        /\ (lit_ret.call = "init") => lineno = 0
        /\ (lit_ret.call = "next" /\ lit_ret.exc = "none") =>
              /\ lineno = lit_ret.before + 1
              /\ lit_ret.line = text[lineno]
        /\ (lit_ret.call = "next" /\ lit_ret.exc = "StopIteration") =>
              /\ lineno = lit_ret.before
              /\ lineno = Len(text)
        /\ (lit_ret.call = "back") => lineno = lit_ret.before - 1
        /\ (lit_ret.call = "error") =>
              /\ lit_ret.exc = "IOError"
              /\ lit_ret.where = <<lit_filename, lineno>>

\* three lines were pulled, two pushed back in order and one pulled again:
\* it is the second line of the file, and lineno is 2
C19_Witness ==
    /\ disciplined
    /\ text = <<"a", "b", "a">>
    /\ fpos = 3 /\ Len(stack) = 1
    /\ lit_ret.call = "next" /\ lit_ret.line = "b"
    /\ lineno = 2

\* an FCHK text that parses, has no 'Beta Orbital Energies' and different
\* alpha and beta electron counts
IsROHF(body) ==
    /\ body.defect = "none"
    /\ ~body.beta
    /\ body.nalpha # body.nbeta
    /\ body.nalpha >= 0 /\ body.nbeta >= 0

\* C20 (under Spec): the load of every ROHF FCHK file succeeds, with or
\* without a 'Total SCF Density' in the file; the mapping has the four
\* orb_beta keys, the beta coefficients are the alpha coefficients, and
\* there is no dm_full_scf key.
C20_RohfLoads ==
    op = "load_one" =>
        \A i \in 1..Len(used) :
            (used[i] = "fchk" /\ IsROHF(filenames[i].body)) =>
                LET loaded == fchk_load(filenames[i].body)
                IN  /\ loaded.exc = "none"
                    /\ {"orb_beta", "orb_beta_coeffs", "orb_beta_energies", "orb_beta_occs"}
                          \subseteq DOMAIN loaded.fields
                    /\ loaded.fields["orb_beta_coeffs"] = loaded.fields["orb_alpha_coeffs"]
                    /\ "dm_full_scf" \notin DOMAIN loaded.fields


-----------------------------------------------------------------------------
(* Properties of the FCHK codec (checked under Spec).                      *)

\* the electron counts fchk.load rejects
InvalidElectronCounts(body) ==
    body.nalpha < 0 \/ body.nbeta < 0 \/ body.nalpha + body.nbeta <= 0

\* C21: the load of an FCHK file that parses and states invalid electron
\* counts raises ValueError, and no mapping is produced.
C21_InvalidElectronCountsRejected ==
    op = "load_one" =>
        \A i \in 1..Len(used) :
            (used[i] = "fchk" /\ filenames[i].body.defect = "none"
                /\ InvalidElectronCounts(filenames[i].body)) =>
                /\ pc = "raised"
                /\ raised.type = "ValueError"

-----------------------------------------------------------------------------
(* Properties of the round trips (checked under SpecRoundTrip).            *)

\* numpy.testing.assert_allclose(a, b, atol=atol) of two arrays of atoms
\* by three floats
allclose(a, b, atol) ==
    /\ Len(a) = Len(b)
    /\ \A i \in 1..Len(a) : \A c \in 1..3 : float_close(a[i][c], b[i][c], atol)

\* the round trip has ended: the file was loaded, and the dump or the second
\* load has returned or raised
RoundTripEnded(first, second) ==
    /\ rt_codec[1] = first /\ rt_codec[2] = second
    /\ rt_pc \in {"failed", "reloaded"}
    /\ DOMAIN mol0 # {}

\* C22: every container loaded from an XYZ file is dumped to XYZ and loaded
\* again, and the second container has the same number of atoms, the same
\* title, the same atomic numbers and the coordinates within 1e-8.
C22_XyzRoundTrip ==
    RoundTripEnded("xyz", "xyz") =>
        /\ rt_pc = "reloaded"
        /\ Len(mol1["numbers"]) = Len(mol0["numbers"])
        /\ mol1["title"] = mol0["title"]
        /\ mol1["numbers"] = mol0["numbers"]
        /\ allclose(mol0["coordinates"], mol1["coordinates"], atol_angstrom)

\* x == y of two arrays of floats
floats_equal(a, b) == Len(a) = Len(b) /\ \A i \in 1..Len(a) : float_eq(a[i], b[i])

\* C23: every container loaded from a CAR file is dumped to CAR and loaded
\* again, and the second container has the same title, the same atoms by
\* number, name, residue type, residue number, atom type and charge, and
\* the coordinates within 1e-8.
C23_CarRoundTrip ==
    RoundTripEnded("car", "car") =>
        /\ rt_pc = "reloaded"
        /\ mol1["title"] = mol0["title"]
        /\ mol1["atnums"] = mol0["atnums"]
        /\ mol1["extra"]["atnames"] = mol0["extra"]["atnames"]
        /\ mol1["atffparams"]["restypes"] = mol0["atffparams"]["restypes"]
        /\ mol1["atffparams"]["resnums"] = mol0["atffparams"]["resnums"]
        /\ mol1["atffparams"]["attypes"] = mol0["atffparams"]["attypes"]
        /\ floats_equal(mol0["atffparams"]["charges"], mol1["atffparams"]["charges"])
        /\ allclose(mol0["atcoords"], mol1["atcoords"], atol_angstrom)

\* C24: every container loaded from an MDF file is dumped to MDF and loaded
\* again, and the second container has the same title, atomic numbers,
\* atom types, charges, residue types, residue numbers and atom names, and
\* the same occupancies and B-factors, whatever their values.
C24_MdfRoundTrip ==
    RoundTripEnded("mdf", "mdf") =>
        /\ rt_pc = "reloaded"
        /\ mol1["title"] = mol0["title"]
        /\ mol1["atnums"] = mol0["atnums"]
        /\ mol1["atffparams"]["attypes"] = mol0["atffparams"]["attypes"]
        /\ floats_equal(mol0["atffparams"]["charges"], mol1["atffparams"]["charges"])
        /\ mol1["atffparams"]["restypes"] = mol0["atffparams"]["restypes"]
        /\ mol1["atffparams"]["resnums"] = mol0["atffparams"]["resnums"]
        /\ mol1["extra"]["atnames"] = mol0["extra"]["atnames"]
        /\ floats_equal(mol0["extra"]["occupancies"], mol1["extra"]["occupancies"])
        /\ floats_equal(mol0["extra"]["bfactors"], mol1["extra"]["bfactors"])

\* the defaults that the claim names, for the atoms of a container loaded
\* from an XYZ file
DefaultsReloaded ==
    /\ rt_pc = "reloaded"
    /\ mol1["title"] = mol0["title"]
    /\ mol1["atnums"] = mol0["numbers"]
    /\ mol1["extra"]["atnames"] =
           [i \in 1..Len(mol0["numbers"]) |-> num2sym(mol0["numbers"][i]) \o nat_str(i)]
    /\ mol1["atffparams"]["attypes"] =
           [i \in 1..Len(mol0["numbers"]) |-> num2sym(mol0["numbers"][i])]
    /\ mol1["atffparams"]["restypes"] = [i \in 1..Len(mol0["numbers"]) |-> str_XXXX]
    /\ mol1["atffparams"]["resnums"] = [i \in 1..Len(mol0["numbers"]) |-> 1]
    /\ floats_equal(mol1["atffparams"]["charges"],
                    [i \in 1..Len(mol0["numbers"]) |-> Float(FALSE, 0, <<>>)])

\* C25: a container loaded from an XYZ file, which has a title, atomic
\* numbers and coordinates and no extra, atffparams or bonds, is dumped to
\* CAR and to MDF without an error, and loading the result gives the
\* defaults: the symbol and the 1-based index as atom name, the symbol as
\* atom type, 'XXXX', 1 and the charge 0.
C25_DumpFromXyz ==
    (/\ RoundTripEnded("xyz", "car") \/ RoundTripEnded("xyz", "mdf")
     /\ \A i \in 1..Len(mol0["numbers"]) : num2sym_has(mol0["numbers"][i])) =>
        DefaultsReloaded

-----------------------------------------------------------------------------
(* Properties of the FCHK permutation (checked under SpecShells).          *)

\* get_shell_nbasis: the number of basis functions of a shell, Cartesian
\* for a type that is not negative and pure for a negative one
get_shell_nbasis(shell_type) ==
    IF shell_type >= 0 THEN ((shell_type + 1) * (shell_type + 2)) \div 2
    ELSE 2 * (-shell_type) + 1

\* shells_to_nbasis: the number of basis functions of the shells
RECURSIVE shells_to_nbasis(_)
shells_to_nbasis(shell_types) ==
    IF shell_types = <<>> THEN 0
    ELSE get_shell_nbasis(Head(shell_types)) + shells_to_nbasis(Tail(shell_types))

\* the indices of the basis functions of shell k, 0-based
ShellBlock(shell_types, k) ==
    {shells_to_nbasis(SubSeq(shell_types, 1, k - 1)) + i :
        i \in 0..(get_shell_nbasis(shell_types[k]) - 1)}

\* C26: for every sequence of shell types that fchk.load accepts, SP shells
\* split, the permutation is a bijection on 0..Nb-1, Nb the number of basis
\* functions of the shells, and maps every index of a shell's block into
\* the same block.
C26_PermutationShellLocalBijection ==
    fp_pc = "done" =>
        /\ Len(fp_perm) = shells_to_nbasis(fp_shells)
        /\ {fp_perm[i] : i \in 1..Len(fp_perm)} = 0..(shells_to_nbasis(fp_shells) - 1)
        /\ \A k \in 1..Len(fp_shells) :
               \A i \in ShellBlock(fp_shells, k) : fp_perm[i + 1] \in ShellBlock(fp_shells, k)

\* an SP shell and a Cartesian d shell: S, P and D blocks, the D block
\* reordered in its place
C26_Witness ==
    /\ fp_pc = "done"
    /\ fp_shells = <<0, 1, 2>>
    /\ fp_perm = <<0, 1, 2, 3, 4, 7, 8, 5, 9, 6>>

-----------------------------------------------------------------------------
(* Properties of the WFN orbital permutation (checked under SpecWfn).      *)

\* C27: for type assignments made of complete Cartesian shells, listed
\* consecutively or grouped component by component, get_permutation_orbital
\* raises nothing (no read past the end of the type assignments, no slice
\* past the end, no failed assertion), every pass of its loop moves index
\* forward and never past the end, so that it ends after at most
\* num_primitive passes, and what it returns is a permutation of
\* 0..num_primitive-1.
C27_OrbitalPermutationEnds ==
    /\ wfn_pc \in {"idle", "start", "loop", "done"}
    /\ wfn_iter <= wfn_index
    /\ wfn_index <= Len(wfn_types)
    /\ wfn_pc = "done" =>
           /\ wfn_index = Len(wfn_types)
           /\ Len(wfn_perm) = Len(wfn_types)
           /\ {wfn_perm[p] : p \in 1..Len(wfn_perm)} = 0..(Len(wfn_types) - 1)

C27_Witness ==
    /\ wfn_pc = "done"
    /\ wfn_types = <<1, 2, 2, 3, 3, 4, 4>>
    /\ wfn_perm = <<0, 1, 3, 5, 2, 4, 6>>
    /\ wfn_iter = 2

-----------------------------------------------------------------------------
(* Properties of the four-index object (checked under SpecTensor).         *)

\* C28: after any sequence of set_four_index_element calls on a four-index
\* object that started as zeros, the object has the 8-fold index symmetry
\* T[i,j,k,l] = T[j,i,l,k] = T[k,j,i,l] = T[i,l,k,j] = T[k,l,i,j] = T[l,k,j,i]
\* = T[j,k,l,i] = T[l,i,j,k] for all i, j, k, l, and the value of the last
\* call is stored at the (i,j,k,l) of that call.
C28_EightFoldSymmetryKept ==
    /\ \A at \in DOMAIN two_mo :
           LET same(i, j, k, l) ==
                   /\ two_mo[<<j, i, l, k>>] = two_mo[<<i, j, k, l>>]
                   /\ two_mo[<<k, j, i, l>>] = two_mo[<<i, j, k, l>>]
                   /\ two_mo[<<i, l, k, j>>] = two_mo[<<i, j, k, l>>]
                   /\ two_mo[<<k, l, i, j>>] = two_mo[<<i, j, k, l>>]
                   /\ two_mo[<<l, k, j, i>>] = two_mo[<<i, j, k, l>>]
                   /\ two_mo[<<j, k, l, i>>] = two_mo[<<i, j, k, l>>]
                   /\ two_mo[<<l, i, j, k>>] = two_mo[<<i, j, k, l>>]
           IN  same(at[1], at[2], at[3], at[4])
    /\ two_mo_calls > 0 =>
           two_mo[<<two_mo_set[1], two_mo_set[2], two_mo_set[3], two_mo_set[4]>>] = two_mo_set[5]

C28_Witness ==
    /\ two_mo_calls = 2
    /\ two_mo_set = <<0, 0, 1, 2, 2>>
    /\ two_mo[<<0, 1, 2, 0>>] = 2
    /\ two_mo[<<2, 0, 0, 1>>] = 2
    /\ two_mo[<<1, 2, 2, 1>>] = 1
    /\ two_mo[<<0, 0, 0, 0>>] = 0

-----------------------------------------------------------------------------
(* Properties of a rejected assignment (checked under SpecContainer).      *)

\* C29: an assignment to a type-checked attribute that raises (wrong number
\* of dimensions, wrong size of a fixed axis, or a first dimension that
\* differs from that of a matching attribute that is set) leaves the
\* container as it was: the attribute keeps its value or stays absent, and
\* no other attribute changes.
C29_RejectedSetChangesNothing ==
    [][(ret'.call = "set" /\ ret'.exc # "none") =>
           (attrs' = attrs /\ assigned' = assigned)]_vars

C29_Witness ==
    /\ ret.call = "set" /\ ret.exc = "TypeError"
    /\ ret.name = "numbers" /\ ret.arg.shape = <<4>>
    /\ DOMAIN attrs = {"numbers", "coordinates"}
    /\ attrs["numbers"].shape = <<3>>
    /\ attrs["coordinates"].shape = <<3, 3>>

-----------------------------------------------------------------------------
(* Properties of an ROHF FCHK file in load_one (checked under Spec).       *)

\* the i-th filename of the call is an FCHK file that loads and has no beta
\* orbital energies and different numbers of alpha and beta electrons
IsRohfFile(i) ==
    /\ i \in 1..Len(filenames)
    /\ select_module(filenames[i].path) # 0
    /\ format_modules[select_module(filenames[i].path)].name = "fchk"
    /\ fchk_load(filenames[i].body).exc = "none"
    /\ ~filenames[i].body.beta
    /\ filenames[i].body.nbeta # filenames[i].body.nalpha

\* the reordering pass has just ended, and the coefficients and the
\* permutation of the mapping were those of one ROHF FCHK file
RohfReordered ==
    /\ op = "load_one" /\ pc = "signs"
    /\ IsRohfFile(LastWith("permutation"))
    /\ LastWith("orb_alpha_coeffs") = LastWith("permutation")
    /\ LastWith("orb_beta_coeffs") = LastWith("permutation")

\* C30: when the reordering pass of load_one has gone over the mapping of an
\* ROHF FCHK file, orb_alpha_coeffs and orb_beta_coeffs are equal, every
\* value the pass visits is what one reordering makes of the value as
\* loaded (the in-place update of one array reached no other), every other
\* value is as loaded, and no two values the pass visits are stored in
\* the same array.
C30_RohfCoefficientsPermutedOnce ==
    RohfReordered =>
        /\ result["orb_alpha_coeffs"] = result["orb_beta_coeffs"]
        /\ \A key \in DOMAIN result :
               result[key] = IF \E k \in 1..Len(pass_order) : pass_order[k] = key
                             THEN perm_value(merged, key, merged["permutation"])
                             ELSE merged[key]
        /\ \A j, k \in 1..Len(pass_order) :
               (j # k /\ {pass_order[j], pass_order[k]} \subseteq DOMAIN result)
                   => storage(pass_order[j]) # storage(pass_order[k])

C30_Witness ==
    /\ RohfReordered
    /\ filenames = <<file_r_fchk>>
    /\ result["orb_alpha_coeffs"] = result["orb_beta_coeffs"]
    /\ result["orb_alpha_coeffs"] # merged["orb_alpha_coeffs"]
    /\ result["orb_alpha_coeffs"]
           # perm_coeffs(result["orb_alpha_coeffs"], merged["permutation"])

=============================================================================
